---- MODULE Spec2Model ----
(***************************************************************************)
(* Model of the broker-backed coordination layer of agentbase              *)
(* (backend/src/coordinator.ts, class RedisCoordinator): the lock manager  *)
(* (acquireLock / releaseLock on lock:<resource>), the task registry       *)
(* (task:<taskId> hash records) and the task router (publishTask,          *)
(* handleIncomingTask on agent:<agentId>:tasks).                           *)
(*                                                                         *)
(* The broker (Redis) executes one command at a time; every `await` of a   *)
(* broker call in the coordinator is a point where other clients' commands *)
(* may be executed, so every coordinator method is split at its awaits.    *)
(*                                                                         *)
(* LockSpec follows the lock manager, TaskSpec the task protocol.  No      *)
(* statement of the coordinator reads a timestamp back, and the clock      *)
(* enters the protocol only through the task identifier, so TaskSpec       *)
(* follows the protocol within one tick of the clock (the case in which    *)
(* identifiers can collide).  The other specifications follow the task     *)
(* protocol together with one more part of the coordinator each:           *)
(* IntakeSpec with messages of other clients on the task channels,         *)
(* LateSpec with connect() and disconnect(), LiveSpec with handlers that   *)
(* return, under fair scheduling, ReplaceSpec with handlers that are       *)
(* replaced; BroadcastSpec follows the broadcast channel and RecordsSpec   *)
(* the status records, both with the clock running.  QuerySpec follows the *)
(* registry with its readers, ClosedSpec one coordinator from its          *)
(* construction on, with calls on handles that are not open, and CycleSpec *)
(* the messages sent to a coordinator that connects and disconnects.       *)
(* StampSpec follows the registry with the clock running, BusySpec the     *)
(* broadcasts that arrive while a task is handled, and AgentSpec the agent *)
(* runtime (backend/src/agent.ts, class DiscordAgent) with its counter of  *)
(* completed tasks and its activity record.                                *)
(***************************************************************************)
EXTENDS Integers, FiniteSets, Sequences, TLC

(***************************************************************************)
(* Bounds of the model.                                                    *)
(***************************************************************************)
\* largest TTL (in broker clock ticks) a caller passes to acquireLock
MaxTTL == 2

\* agent identifiers; one RedisCoordinator instance per identifier
Agents == {"A", "B", "C"}

\* resource names passed to acquireLock / releaseLock
Resources == {"r1"}

TTLs == 1..MaxTTL

\* last value of the wall clock (Date.now()) the model follows
MaxTime == 1

\* number of values the random suffix of a task identifier is drawn from
NumRand == 2

\* number of publishTask calls followed
MaxPublish == 2

\* number of direct calls of the public updateTaskStatus followed
MaxUpdates == 1

\* number of commands (a PUBLISH on a task channel, a write of a status
\* record) other clients of the broker than the coordinators issue
MaxForeign == 1

\* number of broadcastMessage calls followed
MaxBroadcast == 2

\* number of Discord messages the DiscordAgent is sent
MaxMessages == 2

\* the type values of broadcast messages
BroadcastTypes == {"status_check", "shutdown", "ping"}

\* the agents whose coordinators connect and take part in the task protocol
TaskAgents == {"A", "B"}

\* payload.type values of published tasks
Types == {"build"}

\* the handler functions an agent may register
Handlers == {"h1"}

\* the handler functions registered in place of an earlier one
Replacements == {"h2"}

\* publishTask's default priority
DefaultPriority == 5

Statuses == {"pending", "in_progress", "completed", "failed"}

Times == 0..MaxTime

\* the task identifiers `task:${Date.now()}:${random}` publishTask generates
GeneratedIds == Times \X (1..NumRand)

\* an identifier of a form publishTask never generates
StrayId == <<0, 0>>

\* the taskId read from a message that has none: the key task:undefined
UndefinedId == <<-2, -2>>

TaskIds == GeneratedIds \cup {StrayId, UndefinedId}

(***************************************************************************)
(* State.                                                                  *)
(***************************************************************************)
VARIABLES
    lock,      \* lock[r]: the broker key lock:<r>: stored holder and remaining expiry
    relPc,     \* relPc[a]: resource whose DEL a releaseLock of a still has to issue
    lastRet,   \* lastRet[a]: the last lock operation of a that returned, and its result
    lease,     \* lease[a][r]: remaining time of the lease a believes to hold on r
    callers,   \* callers[r]: agents whose acquireLock was executed since lock:<r> was last absent
    winners,   \* winners[r]: those of callers[r] whose acquireLock returned true
    now,       \* the wall clock read by Date.now()
    redisOpen, \* redisOpen[c]: the command handle this.redis of c is connected
    subOpen,   \* subOpen[c]: the subscriber handle this.subscriber of c is connected
    subs,      \* subs[c]: the channels the subscriber handle of c is subscribed to
    connPc,    \* connPc[c]: the connect() or disconnect() call of c in progress
    taskHandlers, \* taskHandlers[c][type]: the handler c registered for the type
    task,      \* task[id]: the broker hash task:<id>
    inbox,     \* inbox[c]: messages the broker sent c on agent:<c>:tasks, not yet dispatched
    runs,      \* runs[c]: the handleIncomingTask invocations of c in progress
    pubPc,     \* pubPc[c]: the publishTask call of c in progress
    pubRet,    \* pubRet[c]: the taskId the last publishTask of c returned
    nPublish,  \* number of publishTask calls so far
    nUpdate,   \* number of direct updateTaskStatus calls so far
    lost,      \* the taskIds whose PUBLISH was executed with no subscriber on the channel
    nForeign,  \* number of commands other clients of the broker issued so far
    agentStatus, \* agentStatus[x]: the broker hash agent:<x>:status
    bcast,     \* bcast[c]: messages the broker sent c on agent:broadcast, not yet handled
    checked,   \* the last status_check broadcast: its time, the coordinators it was
               \* sent to and those of them that had a task handler running
    got,       \* got[c]: the outcome of the last getAllAgentStatuses call of c
    nBroadcast, \* number of broadcastMessage calls so far
    rejected,  \* rejected[c]: the kind of the last call on c that ended with an error
    asked,     \* the last getTaskStatus call that returned: its taskId and its result
    trail,     \* trail[id]: what has happened to the messages carrying taskId id so far
    agentPc,   \* how far start() and stop() of the DiscordAgent have come
    tasksCompleted, \* the field this.tasksCompleted of the DiscordAgent
    activity,  \* the broker hash agent:<agentId>:activity of the DiscordAgent
    handling,  \* handling[k]: how far handleMessage of the k-th Discord message has come
    events     \* number of events the DiscordAgent has published on agent-activity

lockVars == <<lock, relPc, lastRet, lease, callers, winners>>

statusVars == <<agentStatus, bcast, checked, got, nBroadcast>>

connVars == <<redisOpen, subOpen, subs, connPc>>

callVars == <<rejected, asked>>

agentVars == <<agentPc, tasksCompleted, activity, handling, events>>

routerVars == <<taskHandlers, task, inbox, runs, pubPc, pubRet, nPublish, nUpdate, lost>>

taskVars == <<now, redisOpen, subOpen, subs, connPc, taskHandlers, task, inbox,
              runs, pubPc, pubRet, nPublish, nUpdate, lost, nForeign,
              agentStatus, bcast, checked, got, nBroadcast, rejected, asked, trail,
              agentPc, tasksCompleted, activity, handling, events>>

vars == <<lock, relPc, lastRet, lease, callers, winners,
          now, redisOpen, subOpen, subs, connPc, taskHandlers, task, inbox,
          runs, pubPc, pubRet, nPublish, nUpdate, lost, nForeign,
          agentStatus, bcast, checked, got, nBroadcast, rejected, asked, trail,
          agentPc, tasksCompleted, activity, handling, events>>

\* the key lock:<r> does not exist
NoKey == [holder |-> "none", ttl |-> 0]

\* no lock operation of the agent has returned yet
NoRet == [op |-> "none", res |-> "none", ok |-> FALSE]

\* lease[a][r] values: NoLease = a has no lease on r (never acquired, or
\* released); 0 = the lease ran out without a release; n > 0 = n ticks left
NoLease == -1

\* "an agent holds the lock from an acquireLock that returned true until its
\* own releaseLock completes or its TTL elapses"
Holds(a, r) == lease[a][r] > 0

(***************************************************************************)
(* Broker commands (executed atomically by the broker).                    *)
(***************************************************************************)
\* SET key value NX PX ttl, dropped NX: the key is overwritten
RedisSetNoNX(cur, val, px) ==
    [reply |-> "OK", key |-> [holder |-> val, ttl |-> px]]

\* SET key value NX PX ttl made re-entrant: the holder's own set succeeds
\* and renews the expiry
RedisSetReentrant(cur, val, px) ==
    IF cur = NoKey \/ cur.holder = val
    THEN [reply |-> "OK", key |-> [holder |-> val, ttl |-> px]]
    ELSE [reply |-> "null", key |-> cur]

\* SET key value NX PX ttl: creates the key only if it is absent
RedisSetNXPX(cur, val, px) ==
    IF cur = NoKey
    THEN [reply |-> "OK", key |-> [holder |-> val, ttl |-> px]]
    ELSE [reply |-> "null", key |-> cur]

\* GET key: the stored value, or null
RedisGet(cur) == IF cur = NoKey THEN "null" ELSE cur.holder

\* one tick of the broker's clock with expiry switched off
ExpireKeepKey(cur) == cur

\* one tick of the broker's clock on a key with an expiry: the key
\* disappears when its time is up
ExpireKey(cur) ==
    IF cur = NoKey THEN NoKey
    ELSE IF cur.ttl = 1 THEN NoKey
    ELSE [cur EXCEPT !.ttl = cur.ttl - 1]

\* a command handle that connects when the first command is issued on it
ExecutesLazily(c) == TRUE

\* a command issued on the command handle of coordinator c is sent to the
\* broker and executed only if the handle is open; on a handle that is not
\* open the client rejects it (ClientClosedError)
Executes(c) == redisOpen[c]

(***************************************************************************)
(* Lock manager.                                                           *)
(***************************************************************************)
LockInit ==
    /\ lock = [r \in Resources |-> NoKey]
    /\ relPc = [a \in Agents |-> "none"]
    /\ lastRet = [a \in Agents |-> NoRet]
    /\ lease = [a \in Agents |-> [r \in Resources |-> NoLease]]
    /\ callers = [r \in Resources |-> {}]
    /\ winners = [r \in Resources |-> {}]

\* acquireLock(resource, ttl) of coordinator a: one conditional set, the
\* reply compared with 'OK'
AcquireLock(a, r, t) ==
    LET res == RedisSetNXPX(lock[r], a, t)
        ok == (res.reply = "OK")
    IN  /\ Executes(a)
        /\ lock' = [lock EXCEPT ![r] = res.key]
        /\ lastRet' = [lastRet EXCEPT ![a] = [op |-> "acquire", res |-> r, ok |-> ok]]
        /\ lease' = IF ok THEN [lease EXCEPT ![a][r] = t] ELSE lease
        /\ callers' = [callers EXCEPT ![r] = @ \cup {a}]
        /\ winners' = IF ok THEN [winners EXCEPT ![r] = @ \cup {a}] ELSE winners
        /\ UNCHANGED relPc
        /\ UNCHANGED taskVars

\* the delete of releaseLock issued without looking at the owner read
ReleaseAlways(owner, a) == TRUE

\* releaseLock's test of the owner it read: owner === this.agentId
ReleaseOwnerTest(owner, a) == owner = a

\* releaseLock(resource) of coordinator a, up to the reply of GET: the
\* owner is read and compared; a caller that is not the owner is done
ReleaseLockGet(a, r) ==
    /\ Executes(a)
    /\ relPc[a] = "none"
    /\ UNCHANGED taskVars
    /\ IF ReleaseOwnerTest(RedisGet(lock[r]), a)
       THEN /\ relPc' = [relPc EXCEPT ![a] = r]
            /\ UNCHANGED <<lock, lastRet, lease, callers, winners>>
       ELSE /\ lastRet' = [lastRet EXCEPT ![a] = [op |-> "release", res |-> r, ok |-> FALSE]]
            /\ lease' = [lease EXCEPT ![a][r] = NoLease]
            /\ UNCHANGED <<lock, relPc, callers, winners>>

\* releaseLock of coordinator a, the DEL issued after the owner test
\* passed; on a handle closed in between the command is rejected and
\* releaseLock ends with that error
ReleaseLockDel(a) ==
    /\ relPc[a] # "none"
    /\ relPc' = [relPc EXCEPT ![a] = "none"]
    /\ LET r == relPc[a]
       IN  IF Executes(a)
           THEN /\ lock' = [lock EXCEPT ![r] = NoKey]
                /\ lastRet' = [lastRet EXCEPT ![a] =
                                 [op |-> "release", res |-> r, ok |-> TRUE]]
                /\ lease' = [lease EXCEPT ![a][r] = NoLease]
                /\ callers' = [callers EXCEPT ![r] = {}]
                /\ winners' = [winners EXCEPT ![r] = {}]
           ELSE UNCHANGED <<lock, lastRet, lease, callers, winners>>
    /\ UNCHANGED taskVars

\* time passes at the broker: every expiry comes one tick closer
ExpireTick ==
    /\ \E r \in Resources : lock[r] # NoKey \/ \E a \in Agents : lease[a][r] > 0
    /\ lock' = [r \in Resources |-> ExpireKey(lock[r])]
    /\ lease' = [a \in Agents |-> [r \in Resources |->
                    IF lease[a][r] > 0 THEN lease[a][r] - 1 ELSE lease[a][r]]]
    /\ callers' = [r \in Resources |->
                    IF ExpireKey(lock[r]) = NoKey THEN {} ELSE callers[r]]
    /\ winners' = [r \in Resources |->
                    IF ExpireKey(lock[r]) = NoKey THEN {} ELSE winners[r]]
    /\ UNCHANGED <<relPc, lastRet>>
    /\ UNCHANGED taskVars

LockNext ==
    \/ \E a \in Agents, r \in Resources, t \in TTLs : AcquireLock(a, r, t)
    \/ \E a \in Agents, r \in Resources : ReleaseLockGet(a, r)
    \/ \E a \in Agents : ReleaseLockDel(a)
    \/ ExpireTick

(***************************************************************************)
(* Lock manager: properties.                                               *)
(***************************************************************************)
\* the agents that hold the lock on r
Holders(r) == {a \in Agents : Holds(a, r)}

\* C1: for every resource, under any interleaving of acquireLock,
\* releaseLock and expiry, at most one agent holds the lock at any instant.
C1_AtMostOneHolder == \A r \in Resources : Cardinality(Holders(r)) <= 1

\* C2: releaseLock deletes lock:<resource> only if the stored holder is the
\* caller: the delete of a releaseLock never removes a key that stores
\* another agent's identifier, whatever happened since its read.
C2_ReleaseDeletesOnlyOwnKey ==
    [][\A a \in Agents : \A r \in Resources :
         (relPc[a] = r /\ relPc'[a] = "none" /\ lock[r] # NoKey /\ lock[r].holder # a)
            => lock'[r] = lock[r]]_vars

\* C3: of the acquireLock calls executed on a resource since its key was
\* last absent (one expiry period), exactly one returned true.
C3_ExactlyOneWinner ==
    \A r \in Resources : callers[r] # {} => Cardinality(winners[r]) = 1

\* every agent raced for the fresh key; one won, the others lost
C3_Witness ==
    \E r \in Resources :
        /\ callers[r] = Agents
        /\ Cardinality(winners[r]) = 1
        /\ \E a \in Agents : lastRet[a] = [op |-> "acquire", res |-> r, ok |-> FALSE]

\* C4: a releaseLock of an agent that is not the stored holder changes
\* nothing and is complete after its read; a releaseLock of the stored
\* holder goes on to its delete, after which the key is absent and a
\* conditional set of any agent creates it again.
C4_NonHolderReleaseIsNoop ==
    [][\A a \in Agents : \A r \in Resources :
         /\ (ReleaseLockGet(a, r) /\ RedisGet(lock[r]) # a)
               => /\ lock' = lock
                  /\ relPc'[a] = "none"
                  /\ lastRet'[a] = [op |-> "release", res |-> r, ok |-> FALSE]
         /\ (ReleaseLockGet(a, r) /\ lock[r] # NoKey /\ lock[r].holder = a)
               => relPc'[a] = r
         /\ (ReleaseLockDel(a) /\ relPc[a] = r /\ redisOpen[a])
               => /\ lock'[r] = NoKey
                  /\ \A b \in Agents : \A t \in TTLs :
                        RedisSetNXPX(lock'[r], b, t).reply = "OK"]_vars

\* a non-holder's release was a no-op, the holder's release deleted the key
\* and a third agent then acquired the resource again
C4_Witness ==
    \E r \in Resources : \E a, b, c \in Agents :
        /\ a # b /\ b # c /\ a # c
        /\ lastRet[a] = [op |-> "release", res |-> r, ok |-> FALSE]
        /\ lastRet[b] = [op |-> "release", res |-> r, ok |-> TRUE]
        /\ lastRet[c] = [op |-> "acquire", res |-> r, ok |-> TRUE]
        /\ lock[r] # NoKey /\ lock[r].holder = c

\* the lease of some agent other than b on r ran out without a release, and
\* no agent's lease on r is still running
LeaseElapsed(b, r) ==
    /\ \E a \in Agents \ {b} : lease[a][r] = 0
    /\ Holders(r) = {}

\* C5: once the TTL of an acquired and never released lock has elapsed, an
\* acquireLock of a different agent on that resource returns true.
C5_ExpiredLockIsAcquirable ==
    [][\A b \in Agents : \A r \in Resources : \A t \in TTLs :
         (AcquireLock(b, r, t) /\ LeaseElapsed(b, r))
            => lastRet'[b] = [op |-> "acquire", res |-> r, ok |-> TRUE]]_vars

\* b took the resource over after a's lease had run out unreleased
C5_Witness ==
    \E r \in Resources : \E a, b \in Agents :
        /\ a # b
        /\ lease[a][r] = 0
        /\ lastRet[b] = [op |-> "acquire", res |-> r, ok |-> TRUE]
        /\ lock[r] # NoKey /\ lock[r].holder = b

\* C6: acquireLock returns true iff its conditional set found the key
\* absent; after true the key stores the caller with the TTL passed; after
\* false the key, its holder and its remaining expiry are unchanged, also
\* when the caller is the holder.
C6_AcquireIsSingleAttempt ==
    [][\A a \in Agents : \A r \in Resources : \A t \in TTLs :
         AcquireLock(a, r, t)
            => /\ lastRet'[a].op = "acquire" /\ lastRet'[a].res = r
               /\ lastRet'[a].ok <=> (lock[r] = NoKey)
               /\ lastRet'[a].ok => lock'[r] = [holder |-> a, ttl |-> t]
               /\ ~lastRet'[a].ok => lock' = lock]_vars

\* the holder itself called acquireLock again and got false, with the
\* expiry of its key already partly used up
C6_Witness ==
    \E r \in Resources : \E a \in Agents :
        /\ lastRet[a] = [op |-> "acquire", res |-> r, ok |-> FALSE]
        /\ lock[r] # NoKey /\ lock[r].holder = a
        /\ lease[a][r] = lock[r].ttl
        /\ lock[r].ttl < MaxTTL

(***************************************************************************)
(* Task registry and task router: values.                                  *)
(***************************************************************************)
\* a timestamp field that was never written
NoTime == -1

NoId == <<-1, -1>>

\* the TaskMessage publishTask builds
TaskMessage(id, target, prio, type, t) ==
    [taskId |-> id, agentId |-> target, priority |-> prio,
     payload |-> [type |-> type], timestamp |-> t, status |-> "pending"]

NoTask == [taskId |-> NoId, agentId |-> "none", priority |-> 0,
           payload |-> [type |-> "none"], timestamp |-> NoTime, status |-> "none"]

\* the payload of a message that has none
NoPayload == [type |-> "undefined"]

\* JSON.parse of the text {}: an object with none of the fields of a task
EmptyObject == [taskId |-> UndefinedId, agentId |-> "undefined", priority |-> 0,
                payload |-> NoPayload, timestamp |-> NoTime, status |-> "undefined"]

\* task.payload is defined, so that task.payload.type can be read
HasPayload(t) == t.payload # NoPayload

\* a text that is not JSON
NotJson == <<"text", NoTask>>

\* JSON.stringify of a task: the text carrying exactly its fields
Stringify(t) == <<"json", t>>

\* the channel name agent:<agentId>:tasks
TaskChannel(a) == <<"agent", a, "tasks">>

BroadcastChannel == <<"agent", "broadcast">>

\* the data field of a hash that has none
NoData == <<"nil", NoTask>>

\* a hash key that does not exist: none of its fields is set
NoRecord == [data |-> NoData, status |-> "nil",
             created_at |-> NoTime, updated_at |-> NoTime]

\* HSET task:<id> data <json> status pending created_at <now>
HSetTask(rec, t, at) ==
    [rec EXCEPT !.data = Stringify(t), !.status = "pending", !.created_at = at]

\* HSET task:<id> status <status>, the updated_at field left out
HSetStatusOnly(rec, status, at) ==
    [rec EXCEPT !.status = status]

\* HSET task:<id> status <status> updated_at <now> that also stores the
\* task again with its new status
HSetStatusAndData(rec, status, at) ==
    [rec EXCEPT !.status = status, !.updated_at = at,
                !.data = <<rec.data[1], [rec.data[2] EXCEPT !.status = status]>>]

\* HSET task:<id> status <status>, with HSETNX task:<id> updated_at <now>: the
\* time of the first change is kept
HSetStatusKeepsStamp(rec, status, at) ==
    [rec EXCEPT !.status = status,
                !.updated_at = IF rec.updated_at = NoTime THEN at ELSE rec.updated_at]

\* HSET task:<id> status <status> updated_at <now>
HSetStatus(rec, status, at) ==
    [rec EXCEPT !.status = status, !.updated_at = at]

\* HGET task:<id> status that answers pending where the field is missing
HGetStatusOrPending(rec) == IF rec.status = "nil" THEN "pending" ELSE rec.status

\* HGET task:<id> status
HGetStatus(rec) == IF rec.status = "nil" THEN "null" ELSE rec.status

\* getTaskStatus(taskId) evaluated on a registry
GetTaskStatus(reg, id) == HGetStatus(reg[id])

\* the AgentStatus publishStatus builds
AgentStatus(c, t) ==
    [agentId |-> c, status |-> "online", tasksCompleted |-> 0, uptime |-> "0m",
     lastSeen |-> t]

NoStatus == [agentId |-> "none", status |-> "none", tasksCompleted |-> 0,
             uptime |-> "none", lastSeen |-> NoTime]

\* the data field of a status hash that has none
NoStatusData == <<"nil", NoStatus>>

\* a hash key agent:<x>:status that does not exist
NoStatusRecord == [data |-> NoStatusData, last_updated |-> NoTime]

\* no status_check has been broadcast yet
NoCheck == [at |-> NoTime, to |-> {}, busy |-> {}]

\* a field a hash does not have
NoField == <<"nil", 0>>

\* Number.prototype.toString() and Date.now().toString(): the decimal text
NumberToString(n) == <<"digits", n>>

\* parseInt of a decimal text
ParseInt(s) == s[2]

\* a hash key agent:<agentId>:activity that does not exist
NoActivity == [status |-> "none", tasks_completed |-> NoField, last_updated |-> NoField]

\* no getAllAgentStatuses call of the coordinator has ended yet
NoOutcome == [state |-> "none", value |-> {}]

\* no getTaskStatus call has returned yet
NoAnswer == [id |-> NoId, status |-> "none"]

\* nothing has happened with a taskId: no PUBLISH of a message carrying it
\* was executed, no callback took such a message, no handler was invoked
\* for it and none raised
NoTrail == [sent |-> 0, received |-> 0, invoked |-> 0, raised |-> FALSE]

\* a sequence without its i-th element
RemoveAt(q, i) == SubSeq(q, 1, i - 1) \o SubSeq(q, i + 1, Len(q))

(***************************************************************************)
(* Coordinator lifecycle.                                                  *)
(***************************************************************************)
\* the state of the task side in which the coordinators of the agents in
\* up have completed connect() and the others have only been constructed
TaskInitWith(up) ==
    /\ now = 0
    /\ redisOpen = [c \in Agents |-> c \in up]
    /\ subOpen = [c \in Agents |-> c \in up]
    /\ subs = [c \in Agents |->
                 IF c \in up THEN {TaskChannel(c), BroadcastChannel} ELSE {}]
    /\ connPc = [c \in Agents |-> "idle"]
    /\ taskHandlers = [c \in Agents |-> [y \in Types |-> "none"]]
    /\ task = [id \in TaskIds |-> NoRecord]
    /\ inbox = [c \in Agents |-> <<>>]
    /\ runs = [c \in Agents |-> <<>>]
    /\ pubPc = [c \in Agents |-> [pc |-> "idle", task |-> NoTask]]
    /\ pubRet = [c \in Agents |-> NoId]
    /\ nPublish = 0
    /\ nUpdate = 0
    /\ lost = {}
    /\ nForeign = 0
    /\ agentStatus = [x \in Agents |-> NoStatusRecord]
    /\ bcast = [c \in Agents |-> <<>>]
    /\ checked = NoCheck
    /\ got = [c \in Agents |-> NoOutcome]
    /\ nBroadcast = 0
    /\ rejected = [c \in Agents |-> "none"]
    /\ asked = NoAnswer
    /\ trail = [id \in TaskIds |-> NoTrail]
    /\ agentPc = "constructed"
    /\ tasksCompleted = 0
    /\ activity = NoActivity
    /\ handling = [k \in 1..MaxMessages |-> "none"]
    /\ events = 0

\* the state after construction: no coordinator is connected
TaskInit == TaskInitWith({})

\* Date.now() moves on
ClockTick ==
    /\ now < MaxTime
    /\ now' = now + 1
    /\ UNCHANGED <<agentVars, lockVars, callVars, trail, statusVars, lost, nForeign,
                   redisOpen, subOpen, subs, connPc, taskHandlers, task, inbox, runs,
                   pubPc, pubRet, nPublish, nUpdate>>

\* connect(): await this.redis.connect()
ConnectRedis(c) ==
    /\ connPc[c] = "idle" /\ ~redisOpen[c] /\ ~subOpen[c]
    /\ redisOpen' = [redisOpen EXCEPT ![c] = TRUE]
    /\ connPc' = [connPc EXCEPT ![c] = "connect_subscriber"]
    /\ UNCHANGED <<agentVars, lockVars, callVars, trail, statusVars, lost, nForeign, now,
                   subOpen, subs, taskHandlers, task, inbox, runs, pubPc, pubRet,
                   nPublish, nUpdate>>

\* connect(): await this.subscriber.connect()
ConnectSubscriber(c) ==
    /\ connPc[c] = "connect_subscriber"
    /\ subOpen' = [subOpen EXCEPT ![c] = TRUE]
    /\ connPc' = [connPc EXCEPT ![c] = "subscribe_tasks"]
    /\ UNCHANGED <<agentVars, lockVars, callVars, trail, statusVars, lost, nForeign, now,
                   redisOpen, subs, taskHandlers, task, inbox, runs, pubPc, pubRet,
                   nPublish, nUpdate>>

\* connect(): await this.subscriber.subscribe(`agent:${agentId}:tasks`, ...)
SubscribeTasks(c) ==
    /\ connPc[c] = "subscribe_tasks"
    /\ subs' = [subs EXCEPT ![c] = @ \cup {TaskChannel(c)}]
    /\ connPc' = [connPc EXCEPT ![c] = "subscribe_broadcast"]
    /\ UNCHANGED <<agentVars, lockVars, callVars, trail, statusVars, lost, nForeign, now,
                   redisOpen, subOpen, taskHandlers, task, inbox, runs, pubPc, pubRet,
                   nPublish, nUpdate>>

\* connect(): await this.subscriber.subscribe('agent:broadcast', ...)
SubscribeBroadcast(c) ==
    /\ connPc[c] = "subscribe_broadcast"
    /\ subs' = [subs EXCEPT ![c] = @ \cup {BroadcastChannel}]
    /\ connPc' = [connPc EXCEPT ![c] = "idle"]
    /\ UNCHANGED <<agentVars, lockVars, callVars, trail, statusVars, lost, nForeign, now,
                   redisOpen, subOpen, taskHandlers, task, inbox, runs, pubPc, pubRet,
                   nPublish, nUpdate>>

\* disconnect() without its unsubscribe: the subscriptions are left with
\* the broker
DisconnectKeepsSubscriptions(c) ==
    /\ connPc[c] = "idle" /\ redisOpen[c] /\ subOpen[c]
    /\ connPc' = [connPc EXCEPT ![c] = "quit_subscriber"]
    /\ UNCHANGED <<agentVars, lockVars, callVars, trail, statusVars, lost, nForeign, now,
                   redisOpen, subOpen, subs, taskHandlers, task, inbox, runs, pubPc,
                   pubRet, nPublish, nUpdate>>

\* disconnect(): this.subscriber.unsubscribe() executed by the broker; no
\* further message is sent to the coordinator
DisconnectUnsubscribe(c) ==
    /\ connPc[c] = "idle" /\ redisOpen[c] /\ subOpen[c]
    /\ subs' = [subs EXCEPT ![c] = {}]
    /\ connPc' = [connPc EXCEPT ![c] = "quit_subscriber"]
    /\ UNCHANGED <<agentVars, lockVars, callVars, trail, statusVars, lost, nForeign, now,
                   redisOpen, subOpen, taskHandlers, task, inbox, runs, pubPc, pubRet,
                   nPublish, nUpdate>>

\* disconnect(): await this.subscriber.quit(); the messages sent before the
\* unsubscribe have reached their callback by then
DisconnectQuitSubscriber(c) ==
    /\ connPc[c] = "quit_subscriber"
    /\ inbox[c] = <<>>
    /\ bcast[c] = <<>>
    /\ subOpen' = [subOpen EXCEPT ![c] = FALSE]
    /\ connPc' = [connPc EXCEPT ![c] = "quit_redis"]
    /\ UNCHANGED <<agentVars, lockVars, callVars, trail, statusVars, lost, nForeign, now,
                   redisOpen, subs, taskHandlers, task, inbox, runs, pubPc, pubRet,
                   nPublish, nUpdate>>

\* disconnect(): await this.redis.quit(); the commands already issued on the
\* handle are answered first
DisconnectQuitRedis(c) ==
    /\ connPc[c] = "quit_redis"
    /\ pubPc[c].pc = "idle"
    /\ redisOpen' = [redisOpen EXCEPT ![c] = FALSE]
    /\ connPc' = [connPc EXCEPT ![c] = "idle"]
    /\ UNCHANGED <<agentVars, lockVars, callVars, trail, statusVars, lost, nForeign, now,
                   subOpen, subs, taskHandlers, task, inbox, runs, pubPc, pubRet,
                   nPublish, nUpdate>>

\* the awaits of connect() that follow the first one
ConnectPcs == {"connect_subscriber", "subscribe_tasks", "subscribe_broadcast"}

\* connect(): one of its awaits rejects (the broker cannot be reached or
\* refuses, or the handle is open already); connect() ends with that error
\* and closes nothing it has opened
ConnectFails(c) ==
    /\ connPc[c] \in ConnectPcs \cup {"idle"}
    /\ connPc' = [connPc EXCEPT ![c] = "idle"]
    /\ rejected' = [rejected EXCEPT ![c] = "connect"]
    /\ UNCHANGED <<agentVars, lockVars, asked, trail, statusVars, routerVars, now,
                   nForeign, redisOpen, subOpen, subs>>

\* what the client library makes of an unsubscribe() and a quit() on a
\* subscriber handle that is not open: the unsubscribe is a no-op and the
\* quit rejects (ClientClosedError), or the UNSUBSCRIBE is queued on the
\* closed handle and never answered
ClosedOutcomes == {"rejects", "pending"}

\* disconnect() called on a coordinator whose subscriber handle is not
\* open: it either ends with an error or never ends; this.redis.quit() is
\* not reached
DisconnectClosed(c, outcome) ==
    /\ connPc[c] = "idle" /\ ~subOpen[c]
    /\ IF outcome = "rejects"
       THEN /\ rejected' = [rejected EXCEPT ![c] = "disconnect"]
            /\ UNCHANGED connPc
       ELSE /\ connPc' = [connPc EXCEPT ![c] = "unsubscribe_pending"]
            /\ UNCHANGED rejected
    /\ UNCHANGED <<agentVars, lockVars, asked, trail, statusVars, routerVars, now,
                   nForeign, redisOpen, subOpen, subs>>

\* one of the operations that start with a command on the command handle
\* (publishTask, updateTaskStatus, getTaskStatus, publishStatus,
\* getAllAgentStatuses, acquireLock, releaseLock, broadcastMessage) called on
\* coordinator c while the handle executes no command: the first command of
\* the operation is rejected, and the call ends with that error
CallRejected(c) ==
    /\ ~Executes(c)
    /\ rejected' = [rejected EXCEPT ![c] = "operation"]
    /\ UNCHANGED <<agentVars, lockVars, asked, trail, statusVars, connVars, routerVars,
                   now, nForeign>>

\* registerTaskHandler(taskType, handler)
RegisterTaskHandler(c, y, h) ==
    /\ taskHandlers[c][y] # h
    /\ taskHandlers' = [taskHandlers EXCEPT ![c][y] = h]
    /\ UNCHANGED <<agentVars, lockVars, callVars, trail, statusVars, lost, nForeign, now,
                   redisOpen, subOpen, subs, connPc, task, inbox, runs, pubPc, pubRet,
                   nPublish, nUpdate>>

(***************************************************************************)
(* Task router: publishTask.                                               *)
(***************************************************************************)
\* publishTask that leaves the registry write out
PublishTaskPutSkipped(c, target, y, n) ==
    LET id == <<now, n>>
        t == TaskMessage(id, target, DefaultPriority, y, now)
    IN  /\ Executes(c)
        /\ pubPc[c].pc = "idle"
        /\ nPublish < MaxPublish
        /\ pubPc' = [pubPc EXCEPT ![c] = [pc |-> "stored", task |-> t]]
        /\ nPublish' = nPublish + 1
        /\ UNCHANGED <<agentVars, lockVars, callVars, trail, statusVars, lost, nForeign,
                       now, redisOpen, subOpen, subs, connPc, taskHandlers, task, inbox,
                       runs, pubRet, nUpdate>>

\* publishTask(targetAgent, taskPayload, priority) up to the reply of its
\* hSet: the identifier is generated, the task built and stored
PublishTaskPut(c, target, y, n) ==
    LET id == <<now, n>>
        t == TaskMessage(id, target, DefaultPriority, y, now)
    IN  /\ Executes(c)
        /\ pubPc[c].pc = "idle"
        /\ nPublish < MaxPublish
        /\ task' = [task EXCEPT ![id] = HSetTask(@, t, now)]
        /\ pubPc' = [pubPc EXCEPT ![c] = [pc |-> "stored", task |-> t]]
        /\ nPublish' = nPublish + 1
        /\ UNCHANGED <<agentVars, lockVars, callVars, trail, statusVars, lost, nForeign,
                       now, redisOpen, subOpen, subs, connPc, taskHandlers, inbox, runs,
                       pubRet, nUpdate>>

\* publishTask: PUBLISH agent:<targetAgent>:tasks <json> executed by the
\* broker, which sends the message to every subscriber of the channel
PublishTaskPublish(c) ==
    /\ pubPc[c].pc = "stored"
    /\ LET t == pubPc[c].task
       IN  inbox' = [d \in Agents |->
                        IF TaskChannel(t.agentId) \in subs[d]
                        THEN Append(inbox[d], Stringify(t))
                        ELSE inbox[d]]
    /\ pubPc' = [pubPc EXCEPT ![c].pc = "published"]
    /\ lost' = IF \E d \in Agents : TaskChannel(pubPc[c].task.agentId) \in subs[d]
               THEN lost
               ELSE lost \cup {pubPc[c].task.taskId}
    /\ trail' = [trail EXCEPT ![pubPc[c].task.taskId].sent = @ + 1]
    /\ UNCHANGED <<agentVars, lockVars, callVars, statusVars, nForeign, now, redisOpen,
                   subOpen, subs, connPc, taskHandlers, task, runs, pubRet, nPublish,
                   nUpdate>>

\* publishTask: the reply of PUBLISH has arrived; the taskId is returned
PublishTaskReturn(c) ==
    /\ pubPc[c].pc = "published"
    /\ pubRet' = [pubRet EXCEPT ![c] = pubPc[c].task.taskId]
    /\ pubPc' = [pubPc EXCEPT ![c] = [pc |-> "idle", task |-> NoTask]]
    /\ UNCHANGED <<agentVars, lockVars, callVars, trail, statusVars, lost, nForeign, now,
                   redisOpen, subOpen, subs, connPc, taskHandlers, task, inbox, runs,
                   nPublish, nUpdate>>

\* the texts another client of the broker publishes on a task channel
ForeignMessages == {NotJson, Stringify(EmptyObject)}

\* PUBLISH agent:<x>:tasks <m> issued by another client of the broker than
\* publishTask: the text reaches the callback of every subscriber
PublishForeign(x, m) ==
    /\ nForeign < MaxForeign
    /\ nForeign' = nForeign + 1
    /\ inbox' = [d \in Agents |->
                    IF TaskChannel(x) \in subs[d] THEN Append(inbox[d], m) ELSE inbox[d]]
    /\ UNCHANGED <<agentVars, lockVars, callVars, trail, statusVars, lost, now,
                   redisOpen, subOpen, subs, connPc, taskHandlers, task, runs, pubPc,
                   pubRet, nPublish, nUpdate>>

\* the task identifiers the code around coordinator c has been handed: the
\* one its last publishTask returned and those of the tasks it is handling
KnownIds(c) ==
    ({pubRet[c]} \ {NoId}) \cup {runs[c][i].task.taskId : i \in DOMAIN runs[c]}

\* updateTaskStatus(taskId, status) called on coordinator c, with an
\* identifier c knows or with one that is no task's
UpdateTaskStatus(c, id, st) ==
    /\ Executes(c)
    /\ id \in KnownIds(c) \cup {StrayId}
    /\ nUpdate < MaxUpdates
    /\ task' = [task EXCEPT ![id] = HSetStatus(@, st, now)]
    /\ nUpdate' = nUpdate + 1
    /\ UNCHANGED <<agentVars, lockVars, callVars, trail, statusVars, lost, nForeign, now,
                   redisOpen, subOpen, subs, connPc, taskHandlers, inbox, runs, pubPc,
                   pubRet, nPublish>>

\* getTaskStatus(taskId) called on coordinator c, with an identifier c
\* knows or with one that is no task's: one HGET, its reply returned
GetTaskStatusCall(c, id) ==
    /\ Executes(c)
    /\ id \in KnownIds(c) \cup {StrayId}
    /\ asked' = [id |-> id, status |-> GetTaskStatus(task, id)]
    /\ asked' # asked
    /\ UNCHANGED <<agentVars, lockVars, rejected, trail, statusVars, connVars,
                   routerVars, now, nForeign>>

(***************************************************************************)
(* Coordinator: handleIncomingTask.                                        *)
(***************************************************************************)
\* JSON.parse succeeds on the text
ParseOk(m) == m[1] = "json"

\* JSON.parse of a stringified task
Parse(m) == m[2]

\* this.taskHandlers.get(type)
TaskHandlerGet(c, y) ==
    IF y \in DOMAIN taskHandlers[c] THEN taskHandlers[c][y] ELSE "none"

\* the registry after an updateTaskStatus(id, st) that a closed handle
\* executes as an open one does
StatusWrittenWhenClosed(c, id, st) == [task EXCEPT ![id] = HSetStatus(@, st, now)]

\* the registry after updateTaskStatus(id, st) of coordinator c; on a closed
\* handle the command is rejected and nothing is written
StatusWritten(c, id, st) ==
    IF Executes(c) THEN [task EXCEPT ![id] = HSetStatus(@, st, now)] ELSE task

\* handleIncomingTask(message) up to the reply of its first
\* updateTaskStatus: the message is parsed and the task set to in_progress
ReceiveTask(c) ==
    /\ inbox[c] # <<>>
    /\ inbox' = [inbox EXCEPT ![c] = Tail(@)]
    /\ LET m == Head(inbox[c])
       IN  IF ParseOk(m) /\ Executes(c)
           THEN /\ task' = StatusWritten(c, Parse(m).taskId, "in_progress")
                /\ runs' = [runs EXCEPT ![c] =
                              Append(@, [task |-> Parse(m), pc |-> "lookup",
                                         handler |-> "none"])]
           ELSE UNCHANGED <<task, runs>>
    /\ trail' = IF ParseOk(Head(inbox[c]))
                THEN [trail EXCEPT ![Parse(Head(inbox[c])).taskId].received = @ + 1]
                ELSE trail
    /\ UNCHANGED <<agentVars, lockVars, callVars, statusVars, lost, nForeign, now,
                   redisOpen, subOpen, subs, connPc, taskHandlers, pubPc, pubRet,
                   nPublish, nUpdate>>

\* handleIncomingTask whose missing-handler branch only warns
DispatchTaskWarnOnly(c, i) ==
    /\ i \in DOMAIN runs[c]
    /\ runs[c][i].pc = "lookup"
    /\ LET t == runs[c][i].task
           h == TaskHandlerGet(c, t.payload.type)
       IN  IF HasPayload(t) /\ h # "none"
           THEN /\ runs' = [runs EXCEPT ![c][i].pc = "handler", ![c][i].handler = h]
                /\ trail' = [trail EXCEPT ![t.taskId].invoked = @ + 1]
                /\ UNCHANGED task
           ELSE /\ runs' = [runs EXCEPT ![c] = RemoveAt(@, i)]
                /\ UNCHANGED <<task, trail>>
    /\ UNCHANGED <<agentVars, lockVars, callVars, statusVars, lost, nForeign, now,
                   redisOpen, subOpen, subs, connPc, taskHandlers, inbox, pubPc, pubRet,
                   nPublish, nUpdate>>

\* handleIncomingTask that invokes the handler registered first for the
\* type, whatever was registered for it later
DispatchTaskFirstHandler(c, i) ==
    /\ i \in DOMAIN runs[c]
    /\ runs[c][i].pc = "lookup"
    /\ LET t == runs[c][i].task
           h == IF TaskHandlerGet(c, t.payload.type) = "none" THEN "none" ELSE "h1"
       IN  IF ~HasPayload(t)
           THEN /\ runs' = [runs EXCEPT ![c] = RemoveAt(@, i)]
                /\ UNCHANGED <<task, trail>>
           ELSE IF h # "none"
           THEN /\ runs' = [runs EXCEPT ![c][i].pc = "handler", ![c][i].handler = h]
                /\ trail' = [trail EXCEPT ![t.taskId].invoked = @ + 1]
                /\ UNCHANGED task
           ELSE /\ task' = StatusWritten(c, t.taskId, "failed")
                /\ runs' = [runs EXCEPT ![c] = RemoveAt(@, i)]
                /\ UNCHANGED trail
    /\ UNCHANGED <<agentVars, lockVars, callVars, statusVars, lost, nForeign, now,
                   redisOpen, subOpen, subs, connPc, taskHandlers, inbox, pubPc, pubRet,
                   nPublish, nUpdate>>

\* handleIncomingTask after the reply of its first updateTaskStatus: reading
\* payload.type of a message without payload throws, and the catch block
\* logs; otherwise the handler for payload.type is looked up and invoked, or
\* the task is set to failed
DispatchTask(c, i) ==
    /\ i \in DOMAIN runs[c]
    /\ runs[c][i].pc = "lookup"
    /\ LET t == runs[c][i].task
           h == TaskHandlerGet(c, t.payload.type)
       IN  IF ~HasPayload(t)
           THEN /\ runs' = [runs EXCEPT ![c] = RemoveAt(@, i)]
                /\ UNCHANGED <<task, trail>>
           ELSE IF h # "none"
           THEN /\ runs' = [runs EXCEPT ![c][i].pc = "handler", ![c][i].handler = h]
                /\ trail' = [trail EXCEPT ![t.taskId].invoked = @ + 1]
                /\ UNCHANGED task
           ELSE /\ task' = StatusWritten(c, t.taskId, "failed")
                /\ runs' = [runs EXCEPT ![c] = RemoveAt(@, i)]
                /\ UNCHANGED trail
    /\ UNCHANGED <<agentVars, lockVars, callVars, statusVars, lost, nForeign, now,
                   redisOpen, subOpen, subs, connPc, taskHandlers, inbox, pubPc, pubRet,
                   nPublish, nUpdate>>

\* handleIncomingTask that ends after the handler without a status write
HandlerReturnSilent(c, i) ==
    /\ i \in DOMAIN runs[c]
    /\ runs[c][i].pc = "handler"
    /\ runs' = [runs EXCEPT ![c] = RemoveAt(@, i)]
    /\ UNCHANGED <<agentVars, lockVars, callVars, trail, statusVars, lost, nForeign, now,
                   redisOpen, subOpen, subs, connPc, taskHandlers, task, inbox, pubPc,
                   pubRet, nPublish, nUpdate>>

\* handleIncomingTask: the handler has returned; the task is set to completed
HandlerReturn(c, i) ==
    /\ i \in DOMAIN runs[c]
    /\ runs[c][i].pc = "handler"
    /\ task' = StatusWritten(c, runs[c][i].task.taskId, "completed")
    /\ runs' = [runs EXCEPT ![c] = RemoveAt(@, i)]
    /\ UNCHANGED <<agentVars, lockVars, callVars, trail, statusVars, lost, nForeign, now,
                   redisOpen, subOpen, subs, connPc, taskHandlers, inbox, pubPc, pubRet,
                   nPublish, nUpdate>>

\* handleIncomingTask without its try/catch: the rejection of the handler
\* escapes the callback as an unhandled rejection, which ends the process
HandlerThrowEscapes(c, i) ==
    /\ i \in DOMAIN runs[c]
    /\ runs[c][i].pc = "handler"
    /\ runs' = [runs EXCEPT ![c] = <<>>]
    /\ inbox' = [inbox EXCEPT ![c] = <<>>]
    /\ redisOpen' = [redisOpen EXCEPT ![c] = FALSE]
    /\ subOpen' = [subOpen EXCEPT ![c] = FALSE]
    /\ subs' = [subs EXCEPT ![c] = {}]
    /\ trail' = [trail EXCEPT ![runs[c][i].task.taskId].raised = TRUE]
    /\ UNCHANGED <<agentVars, lockVars, callVars, statusVars, lost, nForeign, now,
                   connPc, taskHandlers, task, pubPc, pubRet, nPublish, nUpdate>>

\* handleIncomingTask whose catch block hands the message to the callback
\* again
HandlerThrowRedelivers(c, i) ==
    /\ i \in DOMAIN runs[c]
    /\ runs[c][i].pc = "handler"
    /\ runs' = [runs EXCEPT ![c] = RemoveAt(@, i)]
    /\ inbox' = [inbox EXCEPT ![c] = Append(@, Stringify(runs[c][i].task))]
    /\ trail' = [trail EXCEPT ![runs[c][i].task.taskId].raised = TRUE]
    /\ UNCHANGED <<agentVars, lockVars, callVars, statusVars, lost, nForeign, now,
                   redisOpen, subOpen, subs, connPc, taskHandlers, task, pubPc, pubRet,
                   nPublish, nUpdate>>

\* handleIncomingTask: the handler has thrown or rejected; the catch block
\* logs the error
HandlerThrow(c, i) ==
    /\ i \in DOMAIN runs[c]
    /\ runs[c][i].pc = "handler"
    /\ runs' = [runs EXCEPT ![c] = RemoveAt(@, i)]
    /\ trail' = [trail EXCEPT ![runs[c][i].task.taskId].raised = TRUE]
    /\ UNCHANGED <<agentVars, lockVars, callVars, statusVars, lost, nForeign, now,
                   redisOpen, subOpen, subs, connPc, taskHandlers, task, inbox, pubPc,
                   pubRet, nPublish, nUpdate>>

(***************************************************************************)
(* Agent status records and broadcasts.                                    *)
(***************************************************************************)
\* HSET agent:<agentId>:status data <json> last_updated <now>
HSetAgentStatus(rec, st, at) ==
    [rec EXCEPT !.data = Stringify(st), !.last_updated = at]

\* the data field of a status hash holding a text that is not JSON
BadStatusData == <<"text", NoStatus>>

\* the status records another client of the broker leaves behind: one with
\* a data field that does not parse, one without data field
ForeignStatusKinds == {"malformed", "nodata"}

\* a write of another client of the broker to agent:<x>:status
ForeignStatusWrite(x, kind) ==
    /\ nForeign < MaxForeign
    /\ nForeign' = nForeign + 1
    /\ agentStatus' = [agentStatus EXCEPT ![x] =
                          [data |-> IF kind = "malformed" THEN BadStatusData
                                    ELSE NoStatusData,
                           last_updated |-> now]]
    /\ UNCHANGED <<agentVars, lockVars, callVars, trail, connVars, routerVars, now,
                   bcast, checked, got, nBroadcast>>

\* publishStatus() that writes the status of the caller under the key of
\* every agent
PublishStatusForAll(c) ==
    /\ Executes(c)
    /\ agentStatus' = [x \in Agents |->
                          HSetAgentStatus(agentStatus[x], AgentStatus(c, now), now)]
    /\ agentStatus' # agentStatus
    /\ UNCHANGED <<agentVars, lockVars, callVars, trail, connVars, routerVars, now,
                   nForeign, bcast, checked, got, nBroadcast>>

\* publishStatus() of coordinator c
PublishStatus(c) ==
    /\ Executes(c)
    /\ agentStatus' = [agentStatus EXCEPT ![c] =
                          HSetAgentStatus(@, AgentStatus(c, now), now)]
    /\ agentStatus' # agentStatus
    /\ UNCHANGED <<agentVars, lockVars, callVars, trail, connVars, routerVars, now,
                   nForeign, bcast, checked, got, nBroadcast>>

\* a task handler of coordinator c is running: it was invoked and has not
\* returned
InHandler(c) == \E i \in DOMAIN runs[c] : runs[c][i].pc = "handler"

\* broadcastMessage(message) of coordinator c with a message of type y:
\* PUBLISH agent:broadcast <json>, sent to every subscriber of the channel
BroadcastMessage(c, y) ==
    LET to == {d \in Agents : BroadcastChannel \in subs[d]}
    IN  /\ Executes(c)
        /\ nBroadcast < MaxBroadcast
        /\ nBroadcast' = nBroadcast + 1
        /\ bcast' = [d \in Agents |->
                        IF d \in to THEN Append(bcast[d], Stringify([type |-> y]))
                        ELSE bcast[d]]
        /\ checked' = IF y = "status_check"
                      THEN [at |-> now, to |-> to, busy |-> {d \in to : InHandler(d)}]
                      ELSE checked
        /\ UNCHANGED <<agentVars, lockVars, callVars, trail, connVars, routerVars, now,
                       nForeign, agentStatus, got>>

\* the texts another client of the broker publishes on agent:broadcast
ForeignBroadcasts == {NotJson}

\* PUBLISH agent:broadcast <m> issued by another client of the broker than
\* broadcastMessage: the text reaches the callback of every subscriber
PublishForeignBroadcast(m) ==
    /\ nForeign < MaxForeign
    /\ nForeign' = nForeign + 1
    /\ bcast' = [d \in Agents |->
                    IF BroadcastChannel \in subs[d] THEN Append(bcast[d], m) ELSE bcast[d]]
    /\ UNCHANGED <<agentVars, lockVars, callVars, trail, connVars, routerVars, now,
                   agentStatus, checked, got, nBroadcast>>

\* handleBroadcast that answers every broadcast it can parse with
\* publishStatus
HandleBroadcastAnswersAll(c) ==
    /\ bcast[c] # <<>>
    /\ bcast' = [bcast EXCEPT ![c] = Tail(@)]
    /\ LET m == Head(bcast[c])
       IN  IF ParseOk(m) /\ Executes(c)
           THEN agentStatus' = [agentStatus EXCEPT ![c] =
                                   HSetAgentStatus(@, AgentStatus(c, now), now)]
           ELSE UNCHANGED agentStatus
    /\ UNCHANGED <<agentVars, lockVars, callVars, trail, connVars, routerVars, now,
                   nForeign, checked, got, nBroadcast>>

\* handleBroadcast that answers no broadcast
HandleBroadcastLogOnly(c) ==
    /\ bcast[c] # <<>>
    /\ bcast' = [bcast EXCEPT ![c] = Tail(@)]
    /\ UNCHANGED <<agentVars, lockVars, callVars, trail, connVars, routerVars, now,
                   nForeign, agentStatus, checked, got, nBroadcast>>

\* handleBroadcast called only once no handling of a task is under way: the
\* callbacks of the subscriber run one after the other
HandleBroadcastAfterTasks(c) ==
    /\ runs[c] = <<>>
    /\ bcast[c] # <<>>
    /\ bcast' = [bcast EXCEPT ![c] = Tail(@)]
    /\ LET m == Head(bcast[c])
       IN  IF ParseOk(m) /\ Parse(m).type = "status_check" /\ Executes(c)
           THEN agentStatus' = [agentStatus EXCEPT ![c] =
                                   HSetAgentStatus(@, AgentStatus(c, now), now)]
           ELSE UNCHANGED agentStatus
    /\ UNCHANGED <<agentVars, lockVars, callVars, trail, connVars, routerVars, now,
                   nForeign, checked, got, nBroadcast>>

\* handleBroadcast(message): the message is parsed; status_check calls
\* publishStatus, every other type is logged; an error (the text does not
\* parse, the handle is closed) is caught and logged
HandleBroadcast(c) ==
    /\ bcast[c] # <<>>
    /\ bcast' = [bcast EXCEPT ![c] = Tail(@)]
    /\ LET m == Head(bcast[c])
       IN  IF ParseOk(m) /\ Parse(m).type = "status_check" /\ Executes(c)
           THEN agentStatus' = [agentStatus EXCEPT ![c] =
                                   HSetAgentStatus(@, AgentStatus(c, now), now)]
           ELSE UNCHANGED agentStatus
    /\ UNCHANGED <<agentVars, lockVars, callVars, trail, connVars, routerVars, now,
                   nForeign, checked, got, nBroadcast>>

\* KEYS agent:*:status: the status hashes that exist
StatusKeys(store) == {x \in Agents : store[x] # NoStatusRecord}

\* getAllAgentStatuses() evaluated on the status hashes: every key with a
\* data field is parsed and collected; a data field that does not parse
\* makes JSON.parse throw, and the call rejects
AllStatuses(store) ==
    IF \E x \in StatusKeys(store) : store[x].data[1] = "text"
    THEN [state |-> "rejected", value |-> {}]
    ELSE [state |-> "returned",
          value |-> {Parse(store[x].data) :
                       x \in {k \in StatusKeys(store) : store[k].data[1] = "json"}}]

\* getAllAgentStatuses() called on coordinator c
GetAllAgentStatuses(c) ==
    /\ Executes(c)
    /\ got' = [got EXCEPT ![c] = AllStatuses(agentStatus)]
    /\ got' # got
    /\ UNCHANGED <<agentVars, lockVars, callVars, trail, connVars, routerVars, now,
                   nForeign, agentStatus, bcast, checked, nBroadcast>>

\* broadcasts between coordinators that connect and disconnect, with the
\* clock running
BroadcastNext ==
    \/ ClockTick
    \/ \E c \in TaskAgents : ConnectRedis(c)
    \/ \E c \in TaskAgents : ConnectSubscriber(c)
    \/ \E c \in TaskAgents : SubscribeTasks(c)
    \/ \E c \in TaskAgents : SubscribeBroadcast(c)
    \/ \E c \in TaskAgents : DisconnectUnsubscribe(c)
    \/ \E c \in TaskAgents : DisconnectQuitSubscriber(c)
    \/ \E c \in TaskAgents : DisconnectQuitRedis(c)
    \/ \E c \in TaskAgents : PublishStatus(c)
    \/ \E c \in TaskAgents, y \in BroadcastTypes : BroadcastMessage(c, y)
    \/ \E m \in ForeignBroadcasts : PublishForeignBroadcast(m)
    \/ \E c \in TaskAgents : HandleBroadcast(c)

\* the status records as the coordinators and other clients of the broker
\* write them and getAllAgentStatuses reads them, with the clock running
RecordsNext ==
    \/ ClockTick
    \/ \E c \in TaskAgents : PublishStatus(c)
    \/ \E x \in Agents, kind \in ForeignStatusKinds : ForeignStatusWrite(x, kind)
    \/ \E c \in TaskAgents : GetAllAgentStatuses(c)

\* the event loop of a coordinator runs the broadcast callback for every
\* message it was sent
StatusFairness == \A c \in TaskAgents : WF_vars(HandleBroadcast(c))

RunIndexes == 1..(MaxPublish + MaxForeign)

\* connect() and disconnect()
LifecycleNext ==
    \/ \E c \in TaskAgents : ConnectRedis(c)
    \/ \E c \in TaskAgents : ConnectSubscriber(c)
    \/ \E c \in TaskAgents : SubscribeTasks(c)
    \/ \E c \in TaskAgents : SubscribeBroadcast(c)
    \/ \E c \in TaskAgents : DisconnectUnsubscribe(c)
    \/ \E c \in TaskAgents : DisconnectQuitSubscriber(c)
    \/ \E c \in TaskAgents : DisconnectQuitRedis(c)

\* the task protocol between coordinators, within one tick of the clock
TaskNext ==
    \/ \E c \in TaskAgents, y \in Types, h \in Handlers : RegisterTaskHandler(c, y, h)
    \/ \E c \in TaskAgents, target \in TaskAgents, y \in Types, n \in 1..NumRand :
          PublishTaskPut(c, target, y, n)
    \/ \E c \in TaskAgents : PublishTaskPublish(c)
    \/ \E c \in TaskAgents : PublishTaskReturn(c)
    \/ \E c \in TaskAgents, id \in TaskIds, st \in Statuses : UpdateTaskStatus(c, id, st)
    \/ \E c \in TaskAgents : ReceiveTask(c)
    \/ \E c \in TaskAgents, i \in RunIndexes : DispatchTask(c, i)
    \/ \E c \in TaskAgents, i \in RunIndexes : HandlerReturn(c, i)
    \/ \E c \in TaskAgents, i \in RunIndexes : HandlerThrow(c, i)

(***************************************************************************)
(* Task registry and task router: properties.                              *)
(***************************************************************************)
\* the steps of the task lifecycle
Forward == {<<"pending", "in_progress">>, <<"in_progress", "completed">>,
            <<"in_progress", "failed">>}

\* C7: the status of a task record only moves forward along
\* pending -> in_progress -> {completed | failed}: never backward, never
\* from pending to a terminal status, never out of a terminal status.
C7_StatusMovesForward ==
    [][\A id \in TaskIds :
         task[id].status # "nil"
            => \/ task'[id].status = task[id].status
               \/ <<task[id].status, task'[id].status>> \in Forward]_vars

\* C8: a received task is in_progress when its handling starts and before a
\* handler runs, and when its handler path is over its status is completed
\* or failed.
C8_HandlerPathEndsTerminal ==
    [][\A c \in TaskAgents :
         /\ Len(runs'[c]) > Len(runs[c])
               => LET new == runs'[c][Len(runs'[c])]
                  IN  /\ new.pc = "lookup"
                      /\ task'[new.task.taskId].status = "in_progress"
         /\ \A i \in DOMAIN runs[c] :
               runs'[c] = RemoveAt(runs[c], i)
                  => task'[runs[c][i].task.taskId].status \in {"completed", "failed"}]_vars

\* C9 as stated: getTaskStatus(taskId) evaluated in the state publishTask
\* returns in yields pending.
C9_PendingAfterReturn ==
    [][\A c \in TaskAgents :
         PublishTaskReturn(c) => GetTaskStatus(task', pubRet'[c]) = "pending"]_vars

\* C9 as amended: getTaskStatus(taskId) evaluated in the state publishTask
\* returns in yields one of the four statuses, never null, and yields
\* pending as long as no updateTaskStatus has written the record.
C9_StatusKnownAfterReturn ==
    [][\A c \in TaskAgents :
         PublishTaskReturn(c)
            => LET id == pubRet'[c]
               IN  /\ GetTaskStatus(task', id) \in Statuses
                   /\ task'[id].updated_at = NoTime
                         => GetTaskStatus(task', id) = "pending"]_vars

\* publishTask has returned the identifier of a task that its connected
\* target has already received and set to in_progress
C9_Witness ==
    \E c, d \in TaskAgents :
        /\ pubRet[c] # NoId
        /\ pubPc[c].pc = "idle"
        /\ GetTaskStatus(task, pubRet[c]) = "in_progress"
        /\ \E i \in DOMAIN runs[d] :
              runs[d][i].task.taskId = pubRet[c] /\ runs[d][i].pc = "lookup"

\* C10: whenever a message of publishTask is with a subscriber, waiting for
\* its callback, the registry holds a record of its taskId: getTaskStatus is
\* not null.
C10_StoredBeforePublished ==
    \A c \in TaskAgents : \A k \in DOMAIN inbox[c] :
        /\ ParseOk(inbox[c][k])
        /\ GetTaskStatus(task, Parse(inbox[c][k]).taskId) # "null"

\* a subscriber is about to receive the message of a task that is pending
C10_Witness ==
    \E c \in TaskAgents :
        /\ inbox[c] # <<>>
        /\ GetTaskStatus(task, Parse(Head(inbox[c])).taskId) = "pending"
        /\ Parse(Head(inbox[c])).agentId = c

\* the routing of tasks between coordinators, with messages of other
\* clients of the broker on the task channels
IntakeNext ==
    \/ \E c \in TaskAgents, y \in Types, h \in Handlers : RegisterTaskHandler(c, y, h)
    \/ \E c \in TaskAgents, target \in TaskAgents, y \in Types, n \in 1..NumRand :
          PublishTaskPut(c, target, y, n)
    \/ \E c \in TaskAgents : PublishTaskPublish(c)
    \/ \E c \in TaskAgents : PublishTaskReturn(c)
    \/ \E x \in TaskAgents, m \in ForeignMessages : PublishForeign(x, m)
    \/ \E c \in TaskAgents : ReceiveTask(c)
    \/ \E c \in TaskAgents, i \in RunIndexes : DispatchTask(c, i)
    \/ \E c \in TaskAgents, i \in RunIndexes : HandlerReturn(c, i)
    \/ \E c \in TaskAgents, i \in RunIndexes : HandlerThrow(c, i)

\* the routing of tasks between coordinators that connect and disconnect
LateNext ==
    \/ \E c \in TaskAgents : ConnectRedis(c)
    \/ \E c \in TaskAgents : ConnectSubscriber(c)
    \/ \E c \in TaskAgents : SubscribeTasks(c)
    \/ \E c \in TaskAgents : SubscribeBroadcast(c)
    \/ \E c \in TaskAgents : DisconnectUnsubscribe(c)
    \/ \E c \in TaskAgents : DisconnectQuitSubscriber(c)
    \/ \E c \in TaskAgents : DisconnectQuitRedis(c)
    \/ \E c \in TaskAgents, y \in Types, h \in Handlers : RegisterTaskHandler(c, y, h)
    \/ \E c \in TaskAgents, target \in TaskAgents, y \in Types, n \in 1..NumRand :
          PublishTaskPut(c, target, y, n)
    \/ \E c \in TaskAgents : PublishTaskPublish(c)
    \/ \E c \in TaskAgents : PublishTaskReturn(c)
    \/ \E c \in TaskAgents : ReceiveTask(c)
    \/ \E c \in TaskAgents, i \in RunIndexes : DispatchTask(c, i)
    \/ \E c \in TaskAgents, i \in RunIndexes : HandlerReturn(c, i)
    \/ \E c \in TaskAgents, i \in RunIndexes : HandlerThrow(c, i)

\* the task protocol with handlers that return: no handler raises
LiveNext ==
    \/ \E c \in TaskAgents, y \in Types, h \in Handlers : RegisterTaskHandler(c, y, h)
    \/ \E c \in TaskAgents, target \in TaskAgents, y \in Types, n \in 1..NumRand :
          PublishTaskPut(c, target, y, n)
    \/ \E c \in TaskAgents : PublishTaskPublish(c)
    \/ \E c \in TaskAgents : PublishTaskReturn(c)
    \/ \E c \in TaskAgents : ReceiveTask(c)
    \/ \E c \in TaskAgents, i \in RunIndexes : DispatchTask(c, i)
    \/ \E c \in TaskAgents, i \in RunIndexes : HandlerReturn(c, i)

\* the broker executes every command it was sent and sends every message, the
\* event loop of a coordinator runs every callback and continuation that is
\* ready, and a handler that does not raise returns
LiveFairness ==
    /\ \A c \in TaskAgents : WF_vars(PublishTaskPublish(c))
    /\ \A c \in TaskAgents : WF_vars(PublishTaskReturn(c))
    /\ \A c \in TaskAgents : WF_vars(ReceiveTask(c))
    /\ \A c \in TaskAgents : WF_vars(\E i \in RunIndexes : DispatchTask(c, i))
    /\ \A c \in TaskAgents : WF_vars(\E i \in RunIndexes : HandlerReturn(c, i))

\* the task protocol with handlers registered and replaced at any time
ReplaceNext ==
    \/ \E c \in TaskAgents, y \in Types, h \in Handlers \cup Replacements :
          RegisterTaskHandler(c, y, h)
    \/ \E c \in TaskAgents, target \in TaskAgents, y \in Types, n \in 1..NumRand :
          PublishTaskPut(c, target, y, n)
    \/ \E c \in TaskAgents : PublishTaskPublish(c)
    \/ \E c \in TaskAgents : PublishTaskReturn(c)
    \/ \E c \in TaskAgents : ReceiveTask(c)
    \/ \E c \in TaskAgents, i \in RunIndexes : DispatchTask(c, i)
    \/ \E c \in TaskAgents, i \in RunIndexes : HandlerReturn(c, i)
    \/ \E c \in TaskAgents, i \in RunIndexes : HandlerThrow(c, i)

\* the connection of coordinator c and the messages waiting for its
\* callbacks are the same after the step
StaysSubscribed(c) ==
    /\ redisOpen'[c] = redisOpen[c]
    /\ subOpen'[c] = subOpen[c]
    /\ subs'[c] = subs[c]
    /\ inbox'[c] = inbox[c]

\* C11: when the handling of a received task finds no handler registered
\* for its payload.type, it ends with the status of the task failed, no
\* handler is invoked (a handling moves on to a handler only if one is
\* registered for the type), and the coordinator stays connected and
\* subscribed: nothing escapes the callback.
C11_NoHandlerEndsFailed ==
    [][\A c \in TaskAgents : \A i \in DOMAIN runs[c] :
         LET t == runs[c][i].task
         IN  (runs[c][i].pc = "lookup" /\ HasPayload(t) /\ redisOpen[c])
                => /\ (TaskHandlerGet(c, t.payload.type) = "none"
                         /\ runs'[c] = RemoveAt(runs[c], i))
                        => /\ task'[t.taskId].status = "failed"
                           /\ StaysSubscribed(c)
                   /\ (Len(runs'[c]) = Len(runs[c]) /\ runs'[c][i].pc = "handler")
                        => TaskHandlerGet(c, t.payload.type) # "none"]_vars

\* a task sent to a coordinator without a handler for its type has been
\* handled: it is failed, by no other write than the coordinator's, while
\* the next message is waiting for the callback
C11_Witness ==
    \E c \in TaskAgents : \E id \in GeneratedIds :
        /\ task[id].status = "failed"
        /\ task[id].data[2].agentId = c
        /\ nUpdate = 0
        /\ \A y \in Types : taskHandlers[c][y] = "none"
        /\ runs[c] = <<>>
        /\ inbox[c] # <<>>

\* C12: when a handler invoked for a task ends, also by raising or
\* rejecting, the coordinator stays connected and subscribed, the messages
\* delivered to it are still waiting for the callback and its other
\* handlings go on: nothing escapes the callback.
C12_ThrowKeepsSubscription ==
    [][\A c \in TaskAgents : \A i \in DOMAIN runs[c] :
         (runs[c][i].pc = "handler" /\ Len(runs'[c]) < Len(runs[c]))
            => /\ \E j \in DOMAIN runs[c] : runs'[c] = RemoveAt(runs[c], j)
               /\ StaysSubscribed(c)]_vars

\* a handler raised for one task (the task is left in_progress and its
\* handling is over), and a message delivered afterwards has been received
\* and dispatched to the handler
C12_Witness ==
    \E c \in TaskAgents : \E id1, id2 \in GeneratedIds :
        /\ id1 # id2
        /\ nUpdate = 0
        /\ task[id1].status = "in_progress"
        /\ task[id1].data[2].agentId = c
        /\ \A d \in TaskAgents : \A k \in DOMAIN runs[d] : runs[d][k].task.taskId # id1
        /\ \A d \in TaskAgents : \A k \in DOMAIN inbox[d] : Parse(inbox[d][k]).taskId # id1
        /\ subs[c] = {TaskChannel(c), BroadcastChannel}
        /\ \E k \in DOMAIN runs[c] :
              runs[c][k].task.taskId = id2 /\ runs[c][k].pc = "handler"

\* the text is the serialization of a task: it parses, and the value has a
\* taskId and a payload
IsTaskText(m) ==
    ParseOk(m) /\ Parse(m).taskId # UndefinedId /\ HasPayload(Parse(m))

\* C13: when the task-channel callback takes a message that is not the
\* serialization of a task, it writes nothing to the registry, starts no
\* handling and leaves the coordinator connected and subscribed.
C13_MalformedIsDropped ==
    [][\A c \in TaskAgents :
         (inbox[c] # <<>> /\ ~IsTaskText(Head(inbox[c])) /\ Len(inbox'[c]) < Len(inbox[c]))
            => /\ task' = task
               /\ runs'[c] = runs[c]
               /\ redisOpen'[c] = redisOpen[c]
               /\ subs'[c] = subs[c]]_vars

\* C14: a coordinator handles the messages of its task channel one at a
\* time: the handling of a message starts only when the handling of every
\* earlier message is over, so at most one handling (in_progress write,
\* handler, final status write) of a coordinator is in progress.
C14_OneTaskAtATime == \A c \in TaskAgents : Len(runs[c]) <= 1

\* C15: a task whose message was published while no coordinator was
\* subscribed to the channel of its target stays pending, whoever connects
\* later.
C15_LostStaysPending == \A id \in lost : task[id].status = "pending"

\* publishTask has stored the task id and is about to publish it to a
\* connected and subscribed target that has a handler registered for its type
PublishedToHandler(id) ==
    \E c, d \in TaskAgents :
        /\ pubPc[c].pc = "stored"
        /\ pubPc[c].task.taskId = id
        /\ pubPc[c].task.agentId = d
        /\ redisOpen[d] /\ TaskChannel(d) \in subs[d]
        /\ TaskHandlerGet(d, pubPc[c].task.payload.type) # "none"

\* C16: a task published to a connected coordinator that has a handler
\* registered for its type, the handler returning without raising,
\* eventually has the status completed.
C16_EventuallyCompleted ==
    \A id \in GeneratedIds :
        PublishedToHandler(id) ~> (task[id].status = "completed")

\* B published a task to A, whose handler returned: the task is completed
\* by no other write than A's
C16_Witness ==
    \E id \in GeneratedIds :
        /\ pubRet["B"] = id
        /\ task[id].data[2].agentId = "A"
        /\ taskHandlers["A"][task[id].data[2].payload.type] # "none"
        /\ task[id].status = "completed"

\* C17: every coordinator that was connected (subscribed to agent:broadcast)
\* when a status_check was broadcast at time t eventually has a status
\* record of its own whose last_updated is not earlier than t.
C17_StatusCheckAnswered ==
    \A c \in TaskAgents : \A t \in Times :
        (checked.at = t /\ c \in checked.to)
            ~> (agentStatus[c].last_updated >= t
                  /\ agentStatus[c].data = Stringify(AgentStatus(c, agentStatus[c].last_updated)))

\* a status_check broadcast after the clock had moved on reached both
\* coordinators, and both have answered it with a record of that time
C17_Witness ==
    /\ checked.to = TaskAgents
    /\ checked.at = MaxTime
    /\ \A c \in TaskAgents :
          /\ bcast[c] = <<>>
          /\ agentStatus[c].last_updated = MaxTime
          /\ Parse(agentStatus[c].data).agentId = c

\* the well-formed status records of a store: the parsed data fields of the
\* keys whose data field parses
WellFormedStatuses(store) ==
    {Parse(store[x].data) : x \in {k \in StatusKeys(store) : store[k].data[1] = "json"}}

\* C18: every getAllAgentStatuses call returns, and returns exactly the
\* well-formed records: a key whose data field is missing or does not parse
\* is skipped.
C18_SkipsBadRecords ==
    [][\A c \in TaskAgents :
         GetAllAgentStatuses(c)
            => got'[c] = [state |-> "returned",
                          value |-> WellFormedStatuses(agentStatus)]]_vars

\* C19: a registration for a type, also a repeated one, replaces the
\* handler stored for that type and changes nothing else; a handling that
\* moves on to a handler invokes one handler, the one stored for the type of
\* its task at that moment.
C19_LastRegistrationWins ==
    [][\A c \in TaskAgents :
         /\ \A y \in Types : \A h \in Handlers \cup Replacements :
               RegisterTaskHandler(c, y, h)
                  => /\ taskHandlers' = [taskHandlers EXCEPT ![c][y] = h]
                     /\ runs' = runs /\ task' = task /\ inbox' = inbox
         /\ \A i \in DOMAIN runs[c] :
               (runs[c][i].pc = "lookup" /\ Len(runs'[c]) = Len(runs[c])
                  /\ runs'[c][i].pc = "handler")
                  => /\ runs'[c][i].handler = taskHandlers[c][runs[c][i].task.payload.type]
                     /\ runs'[c][i].handler \in Handlers \cup Replacements
                     /\ runs'[c][i].task = runs[c][i].task]_vars

\* a coordinator registered a handler for a type, dispatched a task to it,
\* registered another handler for the same type and dispatched the next
\* task to that one
C19_Witness ==
    \E c \in TaskAgents : \E j, k \in DOMAIN runs[c] :
        /\ j < k
        /\ runs[c][j].task.payload.type = runs[c][k].task.payload.type
        /\ runs[c][j].pc = "handler" /\ runs[c][k].pc = "handler"
        /\ runs[c][j].handler \in Handlers
        /\ runs[c][k].handler \in Replacements
        /\ taskHandlers[c][runs[c][k].task.payload.type] = runs[c][k].handler

\* C20: a step that is not the registry write of a publishTask (every
\* status write goes through updateTaskStatus) changes at most one task
\* record, and of that record only status and updated_at: data, with the
\* status the task was created with, and created_at stay as they are, and so
\* do the status records and the locks.
C20_UpdateTouchesStatusOnly ==
    [][nPublish' = nPublish
         => /\ \A id \in TaskIds :
                  /\ task'[id].data = task[id].data
                  /\ task'[id].created_at = task[id].created_at
                  /\ task'[id].data # NoData => Parse(task'[id].data).status = "pending"
            /\ Cardinality({id \in TaskIds : task'[id] # task[id]}) <= 1
            /\ \A c \in TaskAgents : \A id \in TaskIds : \A st \in Statuses :
                  UpdateTaskStatus(c, id, st)
                     => /\ task'[id].status = st
                        /\ task'[id].updated_at = now
                        /\ \A other \in TaskIds \ {id} : task'[other] = task[other]
            /\ agentStatus' = agentStatus
            /\ lock' = lock]_vars

\* a task that was published and handled to its end: its record has a final
\* status and an updated_at, next to the data and created_at publishTask wrote
C20_Witness ==
    \E id \in GeneratedIds :
        /\ task[id].status \in {"completed", "failed"}
        /\ task[id].updated_at # NoTime
        /\ task[id].created_at # NoTime
        /\ ParseOk(task[id].data)
        /\ Parse(task[id].data).taskId = id
        /\ Parse(task[id].data).status = "pending"

\* the registry as publishTask, the handling of tasks nobody registered a
\* handler for, direct updateTaskStatus calls and getTaskStatus calls use it
QueryNext ==
    \/ \E c \in TaskAgents, target \in TaskAgents, y \in Types, n \in 1..NumRand :
          PublishTaskPut(c, target, y, n)
    \/ \E c \in TaskAgents : PublishTaskPublish(c)
    \/ \E c \in TaskAgents : PublishTaskReturn(c)
    \/ \E c \in TaskAgents, id \in TaskIds, st \in Statuses : UpdateTaskStatus(c, id, st)
    \/ \E c \in TaskAgents, id \in TaskIds : GetTaskStatusCall(c, id)
    \/ \E c \in TaskAgents : ReceiveTask(c)
    \/ \E c \in TaskAgents, i \in RunIndexes : DispatchTask(c, i)

\* C21: a getTaskStatus call changes nothing in the registry; it returns
\* null exactly when the registry has no record for the taskId, and otherwise
\* the status stored in the record, one of the four statuses.
C21_NullIffUnknown ==
    [][\A c \in TaskAgents : \A id \in TaskIds :
         GetTaskStatusCall(c, id)
            => /\ task' = task
               /\ asked'.id = id
               /\ (asked'.status = "null") <=> (task[id] = NoRecord)
               /\ asked'.status # "null"
                     => asked'.status = task[id].status /\ asked'.status \in Statuses]_vars

\* a getTaskStatus call on an identifier that is no task's has returned
\* null while the registry holds the record of a task that was handled
C21_Witness ==
    /\ asked = [id |-> StrayId, status |-> "null"]
    /\ task[StrayId] = NoRecord
    /\ \E id \in GeneratedIds : task[id].status \in {"completed", "failed"}

\* the agents whose coordinator is followed from its construction through
\* connect(), its operations and disconnect()
ClosedAgents == {"A"}

\* one coordinator from its construction on: connect(), which may fail,
\* its operations, called at any time, and disconnect(), called at any time
ClosedNext ==
    \/ \E c \in ClosedAgents : ConnectRedis(c)
    \/ \E c \in ClosedAgents : ConnectSubscriber(c)
    \/ \E c \in ClosedAgents : SubscribeTasks(c)
    \/ \E c \in ClosedAgents : SubscribeBroadcast(c)
    \/ \E c \in ClosedAgents : ConnectFails(c)
    \/ \E c \in ClosedAgents : DisconnectUnsubscribe(c)
    \/ \E c \in ClosedAgents : DisconnectQuitSubscriber(c)
    \/ \E c \in ClosedAgents : DisconnectQuitRedis(c)
    \/ \E c \in ClosedAgents, o \in ClosedOutcomes : DisconnectClosed(c, o)
    \/ \E c \in ClosedAgents : CallRejected(c)
    \/ \E c \in ClosedAgents, target \in TaskAgents \ ClosedAgents, y \in Types :
          PublishTaskPut(c, target, y, 1)
    \/ \E c \in ClosedAgents : PublishTaskPublish(c)
    \/ \E c \in ClosedAgents : PublishTaskReturn(c)
    \/ \E c \in ClosedAgents, id \in TaskIds : UpdateTaskStatus(c, id, "completed")
    \/ \E c \in ClosedAgents, id \in TaskIds : GetTaskStatusCall(c, id)
    \/ \E c \in ClosedAgents : PublishStatus(c)
    \/ \E c \in ClosedAgents : GetAllAgentStatuses(c)
    \/ \E c \in ClosedAgents, r \in Resources : AcquireLock(c, r, MaxTTL)
    \/ \E c \in ClosedAgents, r \in Resources : ReleaseLockGet(c, r)
    \/ \E c \in ClosedAgents : ReleaseLockDel(c)
    \/ \E c \in ClosedAgents : BroadcastMessage(c, "shutdown")
    \/ \E c \in ClosedAgents : HandleBroadcast(c)

\* no handle of coordinator c is open and no connect() or disconnect() of
\* it is in progress: c has not connected yet, or its disconnect() is over
Disconnected(c) == ~redisOpen[c] /\ ~subOpen[c] /\ connPc[c] = "idle"

\* the step is a call of one of the operations on coordinator c
CallOf(c) ==
    \/ \E target \in TaskAgents, y \in Types, n \in 1..NumRand : PublishTaskPut(c, target, y, n)
    \/ \E id \in TaskIds, st \in Statuses : UpdateTaskStatus(c, id, st)
    \/ \E id \in TaskIds : GetTaskStatusCall(c, id)
    \/ PublishStatus(c)
    \/ GetAllAgentStatuses(c)
    \/ \E r \in Resources, t \in TTLs : AcquireLock(c, r, t)
    \/ \E r \in Resources : ReleaseLockGet(c, r)
    \/ \E y \in BroadcastTypes : BroadcastMessage(c, y)
    \/ CallRejected(c)

\* C22: a connect() call ends either with both handles open and both
\* channels subscribed or with an error; a call of one of the eight
\* operations on a coordinator that has not connected yet or whose
\* disconnect() is over ends with an error, returns nothing and leaves the
\* locks, the task records, the status records and every subscriber's
\* messages as they are.
C22_ConnectedOrRejected ==
    [][\A c \in ClosedAgents :
         /\ (connPc[c] \in ConnectPcs /\ connPc'[c] = "idle")
               => \/ /\ redisOpen'[c] /\ subOpen'[c]
                     /\ subs'[c] = {TaskChannel(c), BroadcastChannel}
                     /\ rejected'[c] = rejected[c]
                  \/ ConnectFails(c) /\ rejected'[c] = "connect"
         /\ (Disconnected(c) /\ CallOf(c))
               => /\ rejected'[c] = "operation"
                  /\ UNCHANGED <<lock, task, agentStatus, inbox, bcast>>
                  /\ UNCHANGED <<pubPc, pubRet, asked, got, lastRet, relPc>>]_vars

\* a coordinator that had connected and published a task was disconnected,
\* and a publishTask call on it then ended with an error
C22_Witness ==
    \E c \in ClosedAgents :
        /\ Disconnected(c)
        /\ rejected[c] = "operation"
        /\ pubRet[c] # NoId
        /\ nPublish = 1

\* C23: a disconnect() call on a coordinator that has not connected or whose
\* disconnect() is over ends without an error and leaves the coordinator as
\* it is, disconnected.
C23_DisconnectIdempotent ==
    [][\A c \in ClosedAgents : \A o \in ClosedOutcomes :
         (Disconnected(c) /\ DisconnectClosed(c, o))
            => /\ rejected'[c] = rejected[c]
               /\ Disconnected(c)']_vars

\* C25: the taskId a publishTask call generates is one no publishTask call
\* has generated before: its registry write creates a record and never
\* writes over the record of an existing task.
C25_FreshTaskId ==
    [][\A c \in TaskAgents : \A target \in TaskAgents : \A y \in Types :
         \A n \in 1..NumRand :
            PublishTaskPut(c, target, y, n) => task[<<now, n>>] = NoRecord]_vars

\* C26: the record of a task whose handler raised or rejected has the status
\* in_progress from then on: no status is written for that task any more.
C26_RaisedStaysInProgress ==
    \A id \in GeneratedIds : trail[id].raised => task[id].status = "in_progress"

\* the step is a status write of coordinator d in its handling of a message
\* that carries the taskId id
ReceiverWrites(d, id) ==
    \/ /\ ReceiveTask(d)
       /\ ParseOk(Head(inbox[d])) /\ Parse(Head(inbox[d])).taskId = id
    \/ \E i \in DOMAIN runs[d] :
          /\ runs[d][i].task.taskId = id
          /\ DispatchTask(d, i) \/ HandlerReturn(d, i)

\* C29: the status of a task record that publishTask has created changes
\* only in the handling of the task by the coordinator of the task's
\* agentId, which received it on its own channel.
C29_OnlyReceiverMutates ==
    [][\A id \in GeneratedIds :
         (task[id].data # NoData /\ task'[id].status # task[id].status)
            => ReceiverWrites(Parse(task[id].data).agentId, id)]_vars

\* the messages carrying the taskId id that are waiting for a callback
Waiting(id) ==
    {ck \in TaskAgents \X RunIndexes :
        /\ ck[2] \in DOMAIN inbox[ck[1]]
        /\ ParseOk(inbox[ck[1]][ck[2]])
        /\ Parse(inbox[ck[1]][ck[2]]).taskId = id}

\* C30: the messages that carry a taskId and have reached a callback or are
\* waiting for one are not more than the PUBLISH commands publishTask
\* issued for it, and the handler invocations for it not more than the
\* callbacks that took such a message: nothing is delivered or dispatched a
\* second time, whatever became of the first.
C30_AtMostOnce ==
    \A id \in GeneratedIds :
        /\ trail[id].invoked <= trail[id].received
        /\ trail[id].received + Cardinality(Waiting(id)) <= trail[id].sent

\* a task was published once and taken once, its handler was invoked once
\* and raised; the task is in_progress and no coordinator has anything left
\* to do
C30_Witness ==
    \E id \in GeneratedIds :
        /\ trail[id] = [sent |-> 1, received |-> 1, invoked |-> 1, raised |-> TRUE]
        /\ task[id].status = "in_progress"
        /\ \A c \in TaskAgents :
              inbox[c] = <<>> /\ runs[c] = <<>> /\ pubPc[c].pc = "idle"

\* the text is a broadcast of type status_check
IsStatusCheck(m) == ParseOk(m) /\ Parse(m).type = "status_check"

\* C27: when the broadcast callback takes a message of type shutdown, of an
\* unknown type or one that does not parse, nothing changes but the message
\* being gone: no status record and no task record is written, and the
\* coordinator stays connected and subscribed; a status record is written
\* in the callback only for a status_check, and it is the caller's own.
C27_OnlyStatusCheckAnswers ==
    [][\A c \in TaskAgents :
         Len(bcast'[c]) < Len(bcast[c])
            => /\ ~IsStatusCheck(Head(bcast[c]))
                     => /\ agentStatus' = agentStatus /\ task' = task /\ lock' = lock
                        /\ StaysSubscribed(c)
                        /\ bcast' = [bcast EXCEPT ![c] = Tail(@)]
               /\ agentStatus' # agentStatus
                     => /\ IsStatusCheck(Head(bcast[c]))
                        /\ agentStatus' = [agentStatus EXCEPT ![c] =
                                               HSetAgentStatus(@, AgentStatus(c, now), now)]]_vars

\* two broadcasts that are no status_check and a text that is not JSON
\* were published; the coordinators are connected, have nothing left to
\* handle, and no status record was written
C27_Witness ==
    /\ nBroadcast = MaxBroadcast /\ nForeign = MaxForeign
    /\ checked = NoCheck
    /\ \A c \in TaskAgents :
          /\ redisOpen[c] /\ BroadcastChannel \in subs[c]
          /\ bcast[c] = <<>>
          /\ agentStatus[c] = NoStatusRecord

\* C28: a step that writes the status record of agent x is a publishStatus
\* of the coordinator of x, called directly or from its broadcast callback:
\* it writes the status of x, and the status record of no other agent.
C28_OwnStatusKeyOnly ==
    [][\A x \in Agents :
         agentStatus'[x] # agentStatus[x]
            => /\ x \in TaskAgents /\ redisOpen[x]
               /\ PublishStatus(x) \/ HandleBroadcast(x)
               /\ agentStatus'[x] = HSetAgentStatus(agentStatus[x], AgentStatus(x, now), now)
               /\ \A z \in Agents \ {x} : agentStatus'[z] = agentStatus[z]]_vars

\* each coordinator has written its own status record, at different times,
\* and the agent without coordinator has none
C28_Witness ==
    /\ \A c \in TaskAgents :
          /\ agentStatus[c] # NoStatusRecord
          /\ Parse(agentStatus[c].data).agentId = c
    /\ agentStatus["A"].last_updated # agentStatus["B"].last_updated
    /\ \A x \in Agents \ TaskAgents : agentStatus[x] = NoStatusRecord

\* the agents that publish and broadcast, and the agents whose coordinator
\* connects and disconnects meanwhile
Senders == {"A"}

Cyclers == {"B"}

\* tasks and broadcasts sent to a coordinator that connects and disconnects
CycleNext ==
    \/ \E c \in Cyclers : ConnectRedis(c)
    \/ \E c \in Cyclers : ConnectSubscriber(c)
    \/ \E c \in Cyclers : SubscribeTasks(c)
    \/ \E c \in Cyclers : SubscribeBroadcast(c)
    \/ \E c \in Cyclers : DisconnectUnsubscribe(c)
    \/ \E c \in Cyclers : DisconnectQuitSubscriber(c)
    \/ \E c \in Cyclers : DisconnectQuitRedis(c)
    \/ \E c \in Senders, target \in Cyclers, y \in Types, n \in 1..NumRand :
          PublishTaskPut(c, target, y, n)
    \/ \E c \in Senders : PublishTaskPublish(c)
    \/ \E c \in Senders : PublishTaskReturn(c)
    \/ \E c \in Senders, y \in BroadcastTypes : BroadcastMessage(c, y)
    \/ \E c \in TaskAgents : ReceiveTask(c)
    \/ \E c \in TaskAgents, i \in RunIndexes : DispatchTask(c, i)
    \/ \E c \in TaskAgents : HandleBroadcast(c)

\* C24: a connect() call that has completed leaves the coordinator with both
\* handles open and subscribed to its task channel and to the broadcast
\* channel, and a PUBLISH hands it one message at most; its callbacks run
\* only while its handles are open; once its disconnect() is over it is
\* subscribed to nothing, no message is waiting for it, none arrives and no
\* handling starts.
C24_HandlesOnlyWhileConnected ==
    [][\A c \in TaskAgents :
         /\ (connPc[c] = "subscribe_broadcast" /\ connPc'[c] = "idle")
               => /\ redisOpen'[c] /\ subOpen'[c]
                  /\ subs'[c] = {TaskChannel(c), BroadcastChannel}
         /\ Len(inbox'[c]) <= Len(inbox[c]) + 1
         /\ Len(bcast'[c]) <= Len(bcast[c]) + 1
         /\ (Len(inbox'[c]) < Len(inbox[c]) \/ Len(bcast'[c]) < Len(bcast[c]))
               => redisOpen[c] /\ subOpen[c]
         /\ Disconnected(c)
               => /\ subs[c] = {} /\ inbox[c] = <<>> /\ bcast[c] = <<>>
                  /\ inbox'[c] = <<>> /\ bcast'[c] = <<>>
                  /\ Len(runs'[c]) <= Len(runs[c])]_vars

\* a coordinator took a task and a broadcast while it was connected; its
\* disconnect() is over, and a task published to it since is with nobody
C24_Witness ==
    \E c \in Cyclers : \E id1, id2 \in GeneratedIds :
        /\ Disconnected(c)
        /\ id1 # id2
        /\ trail[id1].received = 1
        /\ agentStatus[c] # NoStatusRecord
        /\ id2 \in lost /\ trail[id2].received = 0
        /\ task[id2].status = "pending"

(***************************************************************************)
(* Agent runtime (backend/src/agent.ts, class DiscordAgent): start(),      *)
(* handleMessage, the metrics timer and stop().  The agent has one command *)
(* connection to the broker, which executes its commands in the order in   *)
(* which they were issued, so a command is executed at the step that       *)
(* issues it and a step ends where the code awaits a reply.  The simulated *)
(* cpu and memory figures and the uptime text of the metrics are left out. *)
(***************************************************************************)
\* the agent whose runtime is followed
AgentRunners == {"A"}

\* everything the coordinators and the lock manager keep
coordVars ==
    <<lock, relPc, lastRet, lease, callers, winners, now, redisOpen, subOpen, subs,
      connPc, taskHandlers, task, inbox, runs, pubPc, pubRet, nPublish, nUpdate, lost,
      nForeign, agentStatus, bcast, checked, got, nBroadcast, rejected, asked, trail>>

\* this.redis of the agent is connected: from redis.connect() in start() to
\* redis.quit() in stop()
AgentRedisOpen == agentPc \in {"connected", "logged_in", "online", "stopping"}

\* the interval set by startMetricsReporting is never cleared
TimerRuns == agentPc # "constructed"

\* the Discord client delivers messageCreate events: from login() to
\* discordClient.destroy() in stop()
DiscordOpen == agentPc \in {"logged_in", "online", "stopping"}

\* updateStatus(status): HSET agent:<agentId>:activity status <status>; on a
\* closed connection the command is rejected and the catch block logs
HSetActivityStatus(rec, status) ==
    IF AgentRedisOpen THEN [rec EXCEPT !.status = status] ELSE rec

\* updateMetrics(): HSET agent:<agentId>:activity status online
\* tasks_completed <n> last_updated <now> ...; on a closed connection the
\* command is rejected and the catch block logs
HSetMetrics(rec, n, at) ==
    IF AgentRedisOpen
    THEN [status |-> "online", tasks_completed |-> NumberToString(n),
          last_updated |-> NumberToString(at)]
    ELSE rec

\* publishActivity(activity): PUBLISH agent-activity <json>; a rejection is
\* caught and logged
PublishActivity == IF AgentRedisOpen THEN events + 1 ELSE events

\* start() up to the reply of redis.connect(); startMetricsReporting and
\* setupEventHandlers follow without an await
AgentStartConnect ==
    /\ agentPc = "constructed"
    /\ agentPc' = "connected"
    /\ UNCHANGED <<coordVars, tasksCompleted, activity, handling, events>>

\* start(): discordClient.login() has resolved; the ready handler publishes
\* the bot_ready event
AgentStartLogin ==
    /\ agentPc = "connected"
    /\ agentPc' = "logged_in"
    /\ events' = PublishActivity
    /\ UNCHANGED <<coordVars, tasksCompleted, activity, handling>>

\* start(): await this.updateStatus("online")
AgentStartOnline ==
    /\ agentPc = "logged_in"
    /\ agentPc' = "online"
    /\ activity' = HSetActivityStatus(activity, "online")
    /\ UNCHANGED <<coordVars, tasksCompleted, handling, events>>

\* the callback of the 10-second interval: updateMetrics()
MetricsTick ==
    /\ TimerRuns
    /\ activity' = HSetMetrics(activity, tasksCompleted, now)
    /\ activity' # activity
    /\ UNCHANGED <<coordVars, agentPc, tasksCompleted, handling, events>>

\* the kinds of Discord messages: of a bot, of a user without mention
\* outside a DM, and of a user who mentions the bot or writes a DM
MessageKinds == {"bot", "unaddressed", "addressed"}

\* the messages handleMessage returns on at once
Ignored == {"bot", "unaddressed"}

\* messageCreate: handleMessage(message) up to its first await
MessageCreate(k, kind) ==
    /\ DiscordOpen
    /\ handling[k] = "none"
    /\ \A j \in 1..(k - 1) : handling[j] # "none"
    /\ handling' = [handling EXCEPT ![k] =
                       IF kind \in Ignored THEN "ignored" ELSE "processing"]
    /\ UNCHANGED <<coordVars, agentPc, tasksCompleted, activity, events>>

\* handleMessage whose catch block counts the message as well
HandleMessageRaisedCounts(k) ==
    /\ handling[k] = "processing"
    /\ handling' = [handling EXCEPT ![k] = "raised"]
    /\ tasksCompleted' = tasksCompleted + 1
    /\ UNCHANGED <<coordVars, agentPc, activity, events>>

\* handleMessage: sendTyping, processWithClaude or message.reply has
\* raised; the catch block logs and replies with an apology
HandleMessageRaised(k) ==
    /\ handling[k] = "processing"
    /\ handling' = [handling EXCEPT ![k] = "raised"]
    /\ UNCHANGED <<coordVars, agentPc, tasksCompleted, activity, events>>

\* handleMessage: message.reply(formattedResponse) has resolved;
\* this.tasksCompleted++ and updateMetrics() up to the reply of its HSET
HandleMessageReplied(k) ==
    /\ handling[k] = "processing"
    /\ handling' = [handling EXCEPT ![k] = "replied"]
    /\ tasksCompleted' = tasksCompleted + 1
    /\ activity' = HSetMetrics(activity, tasksCompleted', now)
    /\ UNCHANGED <<coordVars, agentPc, events>>

\* handleMessage: publishActivity of the message_processed event
HandleMessagePublished(k) ==
    /\ handling[k] = "replied"
    /\ handling' = [handling EXCEPT ![k] = "done"]
    /\ events' = PublishActivity
    /\ UNCHANGED <<coordVars, agentPc, tasksCompleted, activity>>

\* stop() up to the reply of updateStatus("offline"); the signal handlers
\* that call stop() are installed once start() has returned
AgentStopOffline ==
    /\ agentPc = "online"
    /\ agentPc' = "stopping"
    /\ activity' = HSetActivityStatus(activity, "offline")
    /\ UNCHANGED <<coordVars, tasksCompleted, handling, events>>

\* stop(): discordClient.destroy() and redis.quit()
AgentStopQuit ==
    /\ agentPc = "stopping"
    /\ agentPc' = "stopped"
    /\ UNCHANGED <<coordVars, tasksCompleted, activity, handling, events>>

\* the agent runtime, with the clock running, next to the coordinator of the
\* same agent publishing its status record
AgentNext ==
    \/ ClockTick
    \/ AgentStartConnect
    \/ AgentStartLogin
    \/ AgentStartOnline
    \/ MetricsTick
    \/ \E k \in 1..MaxMessages, kind \in MessageKinds : MessageCreate(k, kind)
    \/ \E k \in 1..MaxMessages : HandleMessageRaised(k)
    \/ \E k \in 1..MaxMessages : HandleMessageReplied(k)
    \/ \E k \in 1..MaxMessages : HandleMessagePublished(k)
    \/ AgentStopOffline
    \/ AgentStopQuit
    \/ \E c \in AgentRunners : PublishStatus(c)

\* the messages whose reply was sent
Replied == {k \in 1..MaxMessages : handling[k] \in {"replied", "done"}}

\* the messages whose processing raised
Raised == {k \in 1..MaxMessages : handling[k] = "raised"}

\* the tasksCompleted value of a status record of the coordinator
StatusCount(rec) == Parse(rec.data).tasksCompleted

\* C33: the tasks_completed value in agent:<agentId>:activity and the
\* tasksCompleted value in agent:<agentId>:status never decrease from one
\* write to the next, and the counter of the agent runtime goes up by one in
\* every step in which the reply to a message has been sent and stays as it
\* is in every other step, the steps in which the processing of a message
\* raises among them; the published value is never ahead of the counter.
C33_MonotonicCounter ==
    [][/\ activity.tasks_completed # NoField
          => /\ activity'.tasks_completed # NoField
             /\ ParseInt(activity'.tasks_completed) >= ParseInt(activity.tasks_completed)
       /\ activity'.tasks_completed # NoField
          => ParseInt(activity'.tasks_completed) <= tasksCompleted'
       /\ \A c \in AgentRunners :
             ParseOk(agentStatus[c].data) /\ ParseOk(agentStatus'[c].data)
                => StatusCount(agentStatus'[c]) >= StatusCount(agentStatus[c])
       /\ tasksCompleted' - tasksCompleted = Cardinality(Replied') - Cardinality(Replied)
       /\ Raised' # Raised => tasksCompleted' = tasksCompleted]_vars

\* one message was replied to and the processing of another raised; the
\* counter is 1 and so is the published value, and the coordinator has
\* published a status record
C33_Witness ==
    /\ Cardinality(Replied) = 1
    /\ Cardinality(Raised) = 1
    /\ tasksCompleted = 1
    /\ activity.tasks_completed = NumberToString(1)
    /\ \E c \in AgentRunners : ParseOk(agentStatus[c].data)

\* C35: once stop() has set the status field of agent:<agentId>:activity to
\* offline, no step sets it to another value.
C35_OfflineStays ==
    [][(agentPc \in {"stopping", "stopped"} /\ activity.status = "offline")
          => activity'.status = "offline"]_vars

(***************************************************************************)
(* Task registry: the fields of a record.                                  *)
(***************************************************************************)
\* the registry with its writers, with the clock running: publishTask, the
\* handling of tasks nobody registered a handler for and direct
\* updateTaskStatus calls
StampNext ==
    \/ ClockTick
    \/ \E c \in TaskAgents, target \in TaskAgents, y \in Types, n \in 1..NumRand :
          PublishTaskPut(c, target, y, n)
    \/ \E c \in TaskAgents : PublishTaskPublish(c)
    \/ \E c \in TaskAgents : PublishTaskReturn(c)
    \/ \E c \in TaskAgents, id \in TaskIds, st \in Statuses : UpdateTaskStatus(c, id, st)
    \/ \E c \in TaskAgents : ReceiveTask(c)
    \/ \E c \in TaskAgents, i \in RunIndexes : DispatchTask(c, i)

C32_StoredWithFourFields ==
    \A id \in TaskIds :
        task[id].data # NoData
            => /\ task[id].status \in Statuses
               /\ task[id].created_at # NoTime
               /\ task[id].updated_at # NoTime

\* C34: every record of the registry was stored by publishTask: a record
\* that exists has the data and created_at fields publishTask writes.
C34_StatusOnlyOnStored ==
    \A id \in TaskIds :
        task[id] # NoRecord
            => task[id].data # NoData /\ task[id].created_at # NoTime

(***************************************************************************)
(* Coordinator: handlings that outlive disconnect().                       *)
(***************************************************************************)
\* C36: a step of a coordinator whose disconnect() has completed (a handling
\* that goes on, a call) writes nothing to the broker: the registry, the
\* status records and the locks are after the step what they were before
\* it, so the task of a handler that was running at disconnect time keeps
\* the status in_progress through the end of that handling.
C36_NoWriteAfterDisconnect ==
    [][\A c \in TaskAgents :
         (/\ Disconnected(c)
          /\ \/ runs'[c] # runs[c]
             \/ pubPc'[c] # pubPc[c]
             \/ inbox'[c] # inbox[c])
            => task' = task /\ agentStatus' = agentStatus /\ lock' = lock]_vars

\* a task was handled once by a coordinator that is disconnected now; its
\* handler was invoked and has returned without raising, and the record is
\* still in_progress
C36_Witness ==
    \E c \in TaskAgents : \E id \in GeneratedIds :
        /\ Disconnected(c)
        /\ runs[c] = <<>>
        /\ task[id].data # NoData /\ Parse(task[id].data).agentId = c
        /\ trail[id] = [sent |-> 1, received |-> 1, invoked |-> 1, raised |-> FALSE]
        /\ task[id].status = "in_progress"

(***************************************************************************)
(* Coordinator: broadcasts while a task is handled.                        *)
(***************************************************************************)
\* the coordinators that handle tasks while broadcasts arrive
BusyAgents == {"A"}

\* the coordinators that send them tasks and broadcasts
BusyPeers == {"B"}

\* the task protocol of the coordinators together with status_check
\* broadcasts, with the clock running; a handler may return or run on
BusyNext ==
    \/ ClockTick
    \/ \E c \in BusyAgents, y \in Types, h \in Handlers : RegisterTaskHandler(c, y, h)
    \/ \E c \in BusyPeers, target \in BusyAgents, y \in Types, n \in 1..NumRand :
          PublishTaskPut(c, target, y, n)
    \/ \E c \in BusyPeers : PublishTaskPublish(c)
    \/ \E c \in BusyPeers : PublishTaskReturn(c)
    \/ \E c \in BusyAgents : ReceiveTask(c)
    \/ \E c \in BusyAgents, i \in RunIndexes : DispatchTask(c, i)
    \/ \E c \in BusyAgents, i \in RunIndexes : HandlerReturn(c, i)
    \/ \E c \in BusyPeers : BroadcastMessage(c, "status_check")
    \/ \E c \in TaskAgents : HandleBroadcast(c)

\* C37: a coordinator that had a task handler running when a status_check
\* was broadcast to it at time t eventually has a status record of its own
\* of time t or later, whether or not the handler ever returns.
C37_AnsweredWhileHandling ==
    \A c \in BusyAgents : \A t \in Times :
        (checked.at = t /\ c \in checked.busy)
            ~> (/\ agentStatus[c].last_updated >= t
                /\ agentStatus[c].data
                      = Stringify(AgentStatus(c, agentStatus[c].last_updated)))

\* the only task published is in its handler, which was running when the
\* status_check was broadcast after the clock had moved on, and the
\* coordinator has answered with a status record of that time
C37_Witness ==
    \E c \in BusyAgents :
        /\ nPublish = 1
        /\ InHandler(c)
        /\ c \in checked.busy
        /\ checked.at = MaxTime
        /\ bcast[c] = <<>>
        /\ agentStatus[c].last_updated = MaxTime
        /\ Parse(agentStatus[c].data).agentId = c

(***************************************************************************)
(* Specifications.                                                         *)
(***************************************************************************)
Init == LockInit /\ TaskInit

\* the lock manager on its own, every coordinator connected
LockProtocolInit == LockInit /\ TaskInitWith(Agents)

LockSpec == LockProtocolInit /\ [][LockNext]_vars

\* the task protocol started with the coordinator of A connected and the
\* coordinator of B either connected or only constructed
TaskProtocolInit ==
    /\ LockInit
    /\ \E up \in {{"A"}, {"A", "B"}} : TaskInitWith(up)

\* the task registry, the task router and the coordinators on their own
TaskSpec == TaskProtocolInit /\ [][TaskNext]_vars

\* the task protocol with foreign messages on the task channels
IntakeSpec == TaskProtocolInit /\ [][IntakeNext]_vars

\* the task protocol between coordinators that connect and disconnect
LateSpec == TaskProtocolInit /\ [][LateNext]_vars

\* every coordinator that takes part connected
LiveInit == LockInit /\ TaskInitWith(TaskAgents)

\* the task protocol with returning handlers under fair scheduling of the
\* broker and of the callbacks
LiveSpec == LiveInit /\ [][LiveNext]_vars /\ LiveFairness

\* the task protocol with handlers that are replaced
ReplaceSpec == LiveInit /\ [][ReplaceNext]_vars

\* the broadcast channel, under fair scheduling of the callbacks
BroadcastSpec == TaskProtocolInit /\ [][BroadcastNext]_vars /\ StatusFairness

\* the status records and their readers, every coordinator connected
RecordsSpec == LiveInit /\ [][RecordsNext]_vars

\* the task registry with its writers and readers
QuerySpec == LiveInit /\ [][QueryNext]_vars

\* one coordinator, from its construction on
ClosedSpec == Init /\ [][ClosedNext]_vars

\* a sender connected, the other coordinator constructed
CycleInit == LockInit /\ TaskInitWith(Senders)

\* messages for a coordinator that connects and disconnects
CycleSpec == CycleInit /\ [][CycleNext]_vars

\* the coordinator of the agent connected, the agent runtime constructed
AgentInit == LockInit /\ TaskInitWith(AgentRunners)

\* the agent runtime from its construction on
AgentSpec == AgentInit /\ [][AgentNext]_vars

\* tasks and broadcasts together: the callbacks of the broadcast channel are
\* scheduled fairly, the handlers of tasks are not
BusySpec == LiveInit /\ [][BusyNext]_vars /\ StatusFairness

\* the task registry with its writers, with the clock running
StampSpec == LiveInit /\ [][StampNext]_vars

Next ==
    \/ LockNext \/ TaskNext \/ IntakeNext \/ LateNext \/ LiveNext
    \/ ReplaceNext \/ BroadcastNext \/ RecordsNext \/ QueryNext
    \/ ClosedNext \/ CycleNext \/ StampNext \/ BusyNext \/ AgentNext
    \/ LifecycleNext \/ ClockTick

Spec == Init /\ [][Next]_vars

====
